---------------------------- MODULE Spec2Model ----------------------------
(***************************************************************************)
(* Model of pystlouisfed's paginated, rate-limited fetch engine:           *)
(* URLFactory.create and Client.__init__ / Client.get / Client._deep_get   *)
(* of src/pystlouisfed/client.py, run against a server that may answer     *)
(* each request with any response of a bounded set.                        *)
(*                                                                         *)
(* Python values are represented as follows.  None is the integer -1 where *)
(* the variable otherwise holds a natural number (limit, offset, count,    *)
(* timestamps).  A character string is a sequence of one-character         *)
(* strings.  A dict is a sequence of <<key, value>> pairs in insertion     *)
(* order.  A raised exception is a record [type, template, args].          *)
(***************************************************************************)
EXTENDS Integers, Sequences, FiniteSets, TLC

(***************************************************************************)
(* Bounds of the model.                                                    *)
(***************************************************************************)
MaxLimit == 2       \* page sizes passed to Client.get: None, 1..MaxLimit
MaxCount == 3       \* "count" values a response body reports: 0..MaxCount
MaxPage == 3        \* records a server puts in one page: 0..MaxPage
MaxRequests == 3    \* requests one Client.get call may send before the model stops following it
MaxCalls == 2       \* Client.get calls followed on one client
MaxTime == 2        \* clock ticks followed
MaxQuota == 2       \* ratelimiter_max_calls: 1..MaxQuota
MaxPeriod == 2      \* ratelimiter_period: 1..MaxPeriod (ticks)
MaxMsgLen == 2      \* characters in an error_message
MaxValueLen == 2    \* characters in a string parameter value
MaxListLen == 2     \* elements in a list parameter value
MaxParams == 2      \* parameters in a mapping given to URLFactory.create

None == -1

Threads == {1, 2}
MainThread == 1

(***************************************************************************)
(* Sequence helpers.                                                       *)
(***************************************************************************)
Range(s) == {s[i] : i \in 1..Len(s)}

SeqsUpTo(S, n) == UNION {[1..k -> S] : k \in 0..n}

Min(a, b) == IF a <= b THEN a ELSE b

\* str.startswith
StartsWith(s, prefix) ==
    /\ Len(s) >= Len(prefix)
    /\ SubSeq(s, 1, Len(prefix)) = prefix


(***************************************************************************)
(* Character strings (sequences of one-character strings) and str.split.   *)
(***************************************************************************)
Chars == {"a", " "}

\* str.split(sep) for a one-character separator: the pieces between separators
RECURSIVE SplitOn(_, _, _)
SplitOn(s, sep, cur) ==
    IF s = <<>> THEN <<cur>>
    ELSE IF Head(s) = sep THEN <<cur>> \o SplitOn(Tail(s), sep, <<>>)
    ELSE SplitOn(Tail(s), sep, Append(cur, Head(s)))

Split(s, sep) == SplitOn(s, sep, <<>>)

\* str.split() without argument: the maximal runs of non-whitespace characters
SplitWhitespace(s) == SelectSeq(Split(s, " "), LAMBDA w : w # <<>>)

\* sep.join(parts)
RECURSIVE Join(_, _)
Join(parts, sep) ==
    IF parts = <<>> THEN <<>>
    ELSE IF Len(parts) = 1 THEN parts[1]
    ELSE parts[1] \o sep \o Join(Tail(parts), sep)

NormalizeSingleSpaces(s) == Join(Split(s, " "), <<" ">>)

\* " ".join(message.split())
NormalizeWhitespace(s) == Join(SplitWhitespace(s), <<" ">>)

\* str.replace(' ', '+')
ReplaceSpaces(s) == [i \in 1..Len(s) |-> IF s[i] = " " THEN "+" ELSE s[i]]

(***************************************************************************)
(* JSON / Python values, tagged with their type.                           *)
(***************************************************************************)
PyNone == [t |-> "none"]
PyInt(n) == [t |-> "int", v |-> n]
PyStr(s) == [t |-> "str", v |-> s]
PyList(items) == [t |-> "list", items |-> items]
PyDict(items) == [t |-> "dict", items |-> items]

\* key in d
DictHas(d, k) == \E i \in 1..Len(d.items) : d.items[i][1] = k

\* d.get(k, default)
DictGet(d, k, default) ==
    IF DictHas(d, k)
    THEN d.items[CHOOSE i \in 1..Len(d.items) : d.items[i][1] = k][2]
    ELSE default

\* {**a, **b}: a's keys in a's order (values overridden by b), then b's new keys
DictMerge(a, b) ==
    LET overridden == [i \in 1..Len(a.items) |->
                         <<a.items[i][1], DictGet(b, a.items[i][1], a.items[i][2])>>]
        added == SelectSeq(b.items, LAMBDA kv : ~DictHas(a, kv[1]))
    IN  PyDict(overridden \o added)

\* Client._deep_get: reduce over keys.split(".")
RECURSIVE DeepReduce(_, _, _)
DeepReduce(d, keys, default) ==
    IF keys = <<>> THEN d
    ELSE DeepReduce(IF d.t = "dict" THEN DictGet(d, Head(keys), default) ELSE default,
                    Tail(keys), default)

deep_get(dictionary, keys) == DeepReduce(dictionary, Split(keys, "."), PyNone)

(***************************************************************************)
(* URLFactory.                                                             *)
(***************************************************************************)
ApiKey == <<"k", "e", "y">>
Base == "https://api.stlouisfed.org"

\* URLFactory.__init__: the fixed parameters
FixedParams ==
    PyDict(<< <<"api_key", PyStr(ApiKey)>>,
              <<"file_type", PyStr(<<"j", "s", "o", "n">>)>> >>)

\* values of the other types that wrappers pass as parameters: a bool, an Enum
\* member (its name and its value), a datetime and a date
PyBool(b) == [t |-> "bool", v |-> b]
PyEnum(name, value) == [t |-> "enum", name |-> name, value |-> value]
PyDatetime(y, mo, d, h, mi) ==
    [t |-> "datetime", year |-> y, month |-> mo, day |-> d, hour |-> h, minute |-> mi]
PyDate(y, mo, d) == [t |-> "date", year |-> y, month |-> mo, day |-> d]

DigitChars == <<"0", "1", "2", "3", "4", "5", "6", "7", "8", "9">>

\* str(n) for an integer n
RECURSIVE Digits(_)
Digits(n) ==
    IF n < 0 THEN <<"-">> \o Digits(-n)
    ELSE IF n < 10 THEN <<DigitChars[n + 1]>>
    ELSE Digits(n \div 10) \o <<DigitChars[(n % 10) + 1]>>

\* a zero-padded decimal field of strftime (%m, %d, %H, %M; %Y for a
\* four-digit year)
RECURSIVE ZeroPad(_, _)
ZeroPad(s, width) == IF Len(s) >= width THEN s ELSE ZeroPad(<<"0">> \o s, width)

\* v.strftime('%Y%m%d%H%M')
Strftime(v) ==
    ZeroPad(Digits(v.year), 4) \o ZeroPad(Digits(v.month), 2) \o ZeroPad(Digits(v.day), 2)
    \o ZeroPad(Digits(v.hour), 2) \o ZeroPad(Digits(v.minute), 2)

\* str(v).lower() for a bool
LowerBool(v) == IF v.v THEN <<"t", "r", "u", "e">> ELSE <<"f", "a", "l", "s", "e">>

\* URLFactory.SEPARATOR
SEPARATOR == <<";">>

\* SEPARATOR.join(v) for a list of strings
JoinList(v) == Join([i \in 1..Len(v.items) |-> v.items[i].v], SEPARATOR)

TransformValueKeepingSpaces(v) ==
    IF v.t = "enum" THEN v.value
    ELSE IF v.t = "list" THEN PyStr(JoinList(v))
    ELSE IF v.t = "bool" THEN PyStr(LowerBool(v))
    ELSE IF v.t = "datetime" THEN PyStr(Strftime(v))
    ELSE v

\* the per-value transformation of URLFactory.create, lines 38-54
TransformValue(v) ==
    LET converted == IF v.t = "enum" THEN v.value
                     ELSE IF v.t = "list" THEN PyStr(JoinList(v))
                     ELSE IF v.t = "bool" THEN PyStr(LowerBool(v))
                     ELSE IF v.t = "datetime" THEN PyStr(Strftime(v))
                     ELSE v
    IN  IF converted.t = "str" THEN PyStr(ReplaceSpaces(converted.v)) ELSE converted

\* "%s" % v for the values left in the mapping: str(v) of a string, an int, a date
Format(v) ==
    IF v.t = "str" THEN v.v
    ELSE IF v.t = "int" THEN Digits(v.v)
    ELSE IF v.t = "date"
         THEN ZeroPad(Digits(v.year), 4) \o <<"-">> \o ZeroPad(Digits(v.month), 2)
              \o <<"-">> \o ZeroPad(Digits(v.day), 2)
    ELSE <<>>

\* line 56: "&".join("%s=%s" % (k, v) ...), a string in which a parameter
\* name is one symbol and the rest are characters
PayloadStr(items) ==
    Join([i \in 1..Len(items) |-> <<items[i][1], "=">> \o Format(items[i][2])], <<"&">>)

RemoveNoneNever(params) == params.items

\* line 34: remove None values
RemoveNone(params) == SelectSeq(params.items, LAMBDA kv : kv[2] # PyNone)

\* URLFactory.create: the URL as its base, its endpoint and its query string,
\* with the mapping {**self._params, **filtered} the query string is made from
create(endpoint, params) ==
    LET filtered == RemoveNone(params)
        transformed == [i \in 1..Len(filtered) |->
                          <<filtered[i][1], TransformValue(filtered[i][2])>>]
        merged == DictMerge(FixedParams, PyDict(transformed)).items
    IN  [base |-> Base, endpoint |-> endpoint, query |-> merged,
         payload |-> PayloadStr(merged)]

\* an int-or-None Python variable as a parameter value
OptInt(n) == IF n = None THEN PyNone ELSE PyInt(n)

(***************************************************************************)
(* HTTP responses.  A response is [status, headers, body]: headers a dict, *)
(* body a JSON dict, an XML root element [t |-> "xml", attrs] or an opaque *)
(* document [t |-> "html"].  A content-type value is a sequence of tokens, *)
(* the media type first, so that startswith is a prefix test.              *)
(***************************************************************************)
Statuses == {200, 400, 403, 404, 420, 429, 500, 503}

CtJson == PyStr(<<"application/json">>)
CtXml == PyStr(<<"text/xml">>)
CtXmlCharset == PyStr(<<"text/xml", "; charset=UTF-8">>)
CtHtml == PyStr(<<"text/html">>)

\* the rate-limit headers of the test suite's mock (tests/all.py, lines 16-17)
MockRateHeaders == <<120, 119>>

Headers(ct, rl) ==
    PyDict((IF ct = PyNone THEN <<>> ELSE << <<"content-type", ct>> >>)
           \o (IF rl = <<>> THEN <<>>
               ELSE << <<"x-rate-limit-limit", PyInt(rl[1])>>,
                       <<"x-rate-limit-remaining", PyInt(rl[2])>> >>))

Response(status, ct, rl, body) ==
    [status |-> status, headers |-> Headers(ct, rl), body |-> body]

\* keys of the JSON bodies
KeyCount == <<"c", "o", "u", "n", "t">>
KeyErrorCode == <<"e", "r", "r", "o", "r", "_", "c", "o", "d", "e">>
KeyErrorMessage == <<"e", "r", "r", "o", "r", "_", "m", "e", "s", "s", "a", "g", "e">>

\* the result key paths the wrappers pass: 'seriess' and 'meta.data'
ListKeyFlat == <<"s", "e", "r", "i", "e", "s", "s">>
ListKeyNested == <<"m", "e", "t", "a", ".", "d", "a", "t", "a">>
ListKeys == {ListKeyFlat, ListKeyNested}

\* a JSON object holding value at the key path (a sequence of keys)
RECURSIVE Nest(_, _)
Nest(path, value) ==
    IF Len(path) = 1 THEN PyDict(<< <<path[1], value>> >>)
    ELSE PyDict(<< <<path[1], Nest(Tail(path), value)>> >>)

\* the objects in which the key path does not resolve: the leaf is missing,
\* an intermediate key is missing, or an intermediate value is no object
Unresolved(path) ==
    IF Len(path) = 1 THEN {PyDict(<<>>)}
    ELSE {PyDict(<<>>),
          PyDict(<< <<path[1], PyDict(<<>>)>> >>),
          PyDict(<< <<path[1], PyInt(0)>> >>)}

\* the records at positions first+1 .. first+n of the server's collection
Records(first, n) == [i \in 1..n |-> PyInt(first + i)]

\* a mapping year -> rows, as the regional GeoFRED endpoints return
YearsValue ==
    PyDict(<< <<"2012", PyList(Records(0, 1))>>, <<"2013", PyList(Records(1, 2))>> >>)

\* a data body: the optional count, then the envelope
DataBody(count, envelope) ==
    PyDict((IF count = None THEN <<>> ELSE << <<KeyCount, PyInt(count)>> >>)
           \o envelope.items)

ErrorBody(code, message) ==
    PyDict(<< <<KeyErrorCode, PyInt(code)>>, <<KeyErrorMessage, PyStr(message)>> >>)

XmlBody(attrs) == [t |-> "xml", attrs |-> PyDict(attrs)]

HtmlBody == [t |-> "html"]

(***************************************************************************)
(* Client.get, lines 117-130: the classification of one response.          *)
(***************************************************************************)
Exc(type, template, args) == [type |-> type, template |-> template, args |-> args]

Raise(exc) == [kind |-> "raise", exc |-> exc]
Proceed(data) == [kind |-> "ok", data |-> data]

ErrorStatuses == {400, 403, 420, 429, 500}

\* line 120
ProtocolError(element, url) ==
    Exc("Exception", "Received error code: \"{}\" and message: \"{}\" for URL {}",
        <<DictGet(element.attrs, "code", PyNone),
          DictGet(element.attrs, "message", PyNone), url>>)

\* line 123
ContentTypeError(ct, url) ==
    Exc("Exception", "Unexpected content-type \"{}\" for URL {}", <<ct, url>>)

\* line 128
ApiError(data, url) ==
    Exc("Exception", "Received error code: \"{}\" and message: \"{}\" for URL {}",
        <<DictGet(data, KeyErrorCode, PyNone),
          PyStr(NormalizeWhitespace(DictGet(data, KeyErrorMessage, PyNone).v)), url>>)

\* line 130
StatusError(status, url) ==
    Exc("Exception", "Received status code: \"{}\" for URL {}", <<PyInt(status), url>>)

\* exceptions the interpreter raises: None.startswith, d[missing key], len(None)
AttributeError == Exc("AttributeError", "'NoneType' object has no attribute 'startswith'", <<>>)
KeyError(key) == Exc("KeyError", "{}", <<key>>)
TypeError == Exc("TypeError", "object has no len()", <<>>)

IsXmlErrorExact(res, ct) == ct.v = <<"text/xml">> /\ res.status # 200

\* line 118: the XML test
IsXmlError(res, ct) == StartsWith(ct.v, <<"text/xml">>) /\ res.status # 200

\* line 122: the JSON test
IsJson(ct) == StartsWith(ct.v, <<"application/json">>)

\* line 127: the statuses whose body carries error_code / error_message
IsApiErrorStatus(status) == status \in ErrorStatuses

\* the status tests made before the content-type test
ClassifyStatusFirst(res, url) ==
    LET ct == DictGet(res.headers, "content-type", PyNone)
        decodes == res.body.t = "dict"
    IN  IF ct = PyNone THEN Raise(AttributeError)
        ELSE IF IsXmlError(res, ct) THEN Raise(ProtocolError(res.body, url))
        ELSE IF IsApiErrorStatus(res.status)
             THEN IF ~decodes THEN Raise(Exc("JSONDecodeError", "", <<>>))
                  ELSE IF ~DictHas(res.body, KeyErrorCode) THEN Raise(KeyError(KeyErrorCode))
                  ELSE IF ~DictHas(res.body, KeyErrorMessage)
                       THEN Raise(KeyError(KeyErrorMessage))
                  ELSE Raise(ApiError(res.body, url))
        ELSE IF res.status # 200 THEN Raise(StatusError(res.status, url))
        ELSE IF ~IsJson(ct) THEN Raise(ContentTypeError(ct, url))
        ELSE Proceed(res.body)

\* lines 117-130
Classify(res, url) ==
    LET ct == DictGet(res.headers, "content-type", PyNone)
    IN  IF ct = PyNone THEN Raise(AttributeError)
        ELSE IF IsXmlError(res, ct) THEN Raise(ProtocolError(res.body, url))
        ELSE IF ~IsJson(ct) THEN Raise(ContentTypeError(ct, url))
        ELSE IF IsApiErrorStatus(res.status)
             THEN IF ~DictHas(res.body, KeyErrorCode) THEN Raise(KeyError(KeyErrorCode))
                  ELSE IF ~DictHas(res.body, KeyErrorMessage)
                       THEN Raise(KeyError(KeyErrorMessage))
                  ELSE Raise(ApiError(res.body, url))
        ELSE IF res.status # 200 THEN Raise(StatusError(res.status, url))
        ELSE Proceed(res.body)

(***************************************************************************)
(* Client.get, lines 137-153: extraction and the pagination decision.      *)
(***************************************************************************)
HasLen(v) == v.t \in {"list", "dict", "str"}

\* len(v)
PyLen(v) == IF v.t = "str" THEN Len(v.v) ELSE Len(v.items)

\* the elements "result += v" appends: a list's items, a dict's keys
Elements(v) ==
    IF v.t = "list" THEN v.items
    ELSE IF v.t = "dict" THEN [i \in 1..Len(v.items) |-> PyStr(<<v.items[i][1]>>)]
    ELSE [i \in 1..Len(v.v) |-> PyStr(<<v.v[i]>>)]

WrapAlways(list_data) == <<list_data>>

\* line 141
Wrap(list_data) == IF list_data.t = "list" THEN list_data.items ELSE <<list_data>>

NumberOfRequestsCeiling(count, limit) ==
    IF limit # None THEN (count + limit - 1) \div limit ELSE 1

\* line 143
NumberOfRequests(count, limit) == IF limit # None THEN (count \div limit) + 1 ELSE 1

StopConditionAtMost(limit, count, list_data) ==
    limit = None \/ count < limit \/ PyLen(list_data) <= limit

StopConditionCountOnly(limit, count, list_data) ==
    limit = None \/ count < limit

\* line 146
StopCondition(limit, count, list_data) ==
    limit = None \/ count < limit \/ PyLen(list_data) < limit

\* line 149
AdvanceCondition(limit, list_data) == limit # None /\ PyLen(list_data) = limit

Step(next, value, exc, offset, result, request_number, logged) ==
    [next |-> next, value |-> value, exc |-> exc, offset |-> offset, result |-> result,
     request_number |-> request_number, logged |-> logged]

NoExc == Exc("", "", <<>>)

\* lines 137-153 for one decoded page: what the loop does next ("return",
\* "raise" or "loop"), the new values of the call's local variables and the
\* line the logger writes (request ordinal, number_of_requests), if any
PageStep(limit, offset, result, request_number, data, list_key) ==
    LET list_data == deep_get(data, list_key)
    IN  IF ~DictHas(data, KeyCount)
        THEN Step("return", Wrap(list_data), NoExc, offset, result, request_number, <<>>)
        ELSE LET count == DictGet(data, KeyCount, PyNone).v
                 log == <<request_number, NumberOfRequests(count, limit)>>
             IN  IF ~HasLen(list_data)
                 THEN Step("raise", <<>>, TypeError, offset, result, request_number, log)
                 ELSE LET offset2 == IF AdvanceCondition(limit, list_data)
                                     THEN offset + limit ELSE offset
                          result2 == result \o Elements(list_data)
                      IN  Step(IF StopCondition(limit, count, list_data)
                               THEN "return" ELSE "loop",
                               result2, NoExc, offset2, result2, request_number + 1, log)

(***************************************************************************)
(* The rate limiter of Client.__init__, lines 85-88: a RateLimiter of the  *)
(* ratelimiter package (a context manager keeping the completion times of  *)
(* the recent calls, which sleeps on entry while the period is full) or a  *)
(* nullcontext.                                                            *)
(***************************************************************************)
RateLimiter(max_calls, period) ==
    [kind |-> "RateLimiter", max_calls |-> max_calls, period |-> period, calls |-> <<>>]

nullcontext == [kind |-> "nullcontext", max_calls |-> 0, period |-> 0, calls |-> <<>>]

MakeLimiterInverted(ratelimiter_enabled, max_calls, period) ==
    IF ratelimiter_enabled THEN nullcontext ELSE RateLimiter(max_calls, period)

\* Client.__init__, lines 85-88
MakeLimiter(ratelimiter_enabled, max_calls, period) ==
    IF ratelimiter_enabled THEN RateLimiter(max_calls, period) ELSE nullcontext

Timespan(calls) == calls[Len(calls)] - calls[1]

\* RateLimiter.__enter__: how long the caller sleeps on entry at time t
SleepTime(limiter, t) ==
    IF limiter.kind = "RateLimiter" /\ Len(limiter.calls) >= limiter.max_calls
    THEN limiter.period - Timespan(limiter.calls)
    ELSE 0

RECURSIVE PopOld(_, _)
PopOld(calls, period) ==
    IF Timespan(calls) >= period THEN PopOld(Tail(calls), period) ELSE calls

\* RateLimiter.__exit__ at time t: record the call, drop those a period old
LimiterExit(limiter, t) ==
    IF limiter.kind = "RateLimiter"
    THEN [limiter EXCEPT !.calls = PopOld(Append(limiter.calls, t), limiter.period)]
    ELSE limiter

(***************************************************************************)
(* State.                                                                  *)
(***************************************************************************)
VARIABLES
    rate_limit,              \* Client.rate_limit
    rate_limit_remaining,    \* Client._rate_limit_remaining (None before the first page)
    rate_limit_last_check,   \* Client._rate_limit_last_check (None before the first page)
    rate_limiter,            \* Client._rate_limiter
    lock,                    \* the thread holding the RateLimiter's lock, 0 if free
    now,                     \* the clock
    pc,                      \* per thread: where its Client.get call stands
    args,                    \* per thread: the arguments of the call
    offset,                  \* per thread: local variable offset
    result,                  \* per thread: local variable result
    request_number,          \* per thread: local variable request_number
    url,                     \* per thread: local variable url
    res,                     \* per thread: local variable res
    until,                   \* per thread: when its sleep in the rate gate ends
    outcome,                 \* per thread: what the call returned or raised
    sent,                    \* per thread: the URLs the call has requested, in order
    gated,                   \* per thread: gate entries of the call
    logged,                  \* per thread: the last (ordinal, number_of_requests) line logged
    sendTimes,               \* the times of the network sends, kept when the client was
                             \* constructed with ratelimiter_enabled
    callsMade,               \* Client.get calls started on the client
    config,                  \* the limiter arguments Client.__init__ was given
    server                   \* the number of records the server holds

clientVars == <<rate_limit, rate_limit_remaining, rate_limit_last_check, rate_limiter, lock>>
localVars == <<args, offset, result, request_number, url, res, until, outcome>>
historyVars == <<sent, gated, logged, sendTimes, callsMade>>
vars == <<clientVars, now, pc, localVars, historyVars, config, server>>

Endpoint == "/fred/series"

\* the keyword arguments of the calls followed: search_text = 'a a'
Kwargs == PyDict(<< <<"search_text", PyStr(<<"a", " ", "a">>)>> >>)

Limits == {None} \cup (1..MaxLimit)

NoArgs == [endpoint |-> "", list_key |-> <<>>, limit |-> None, kwargs |-> PyDict(<<>>)]
NoUrl == [base |-> "", endpoint |-> "", query |-> <<>>, payload |-> <<>>]
NoRes == [status |-> 0, headers |-> PyDict(<<>>), body |-> PyDict(<<>>)]
NoOutcome == [kind |-> "none", value |-> <<>>, exc |-> NoExc]

Returned(value) == [kind |-> "return", value |-> value, exc |-> NoExc]
Raised(exc) == [kind |-> "raise", value |-> <<>>, exc |-> exc]

(***************************************************************************)
(* The server: the responses it may give to a request.                     *)
(***************************************************************************)
\* what the server may put at the key path for a request at this offset
Envelopes(list_key, off) ==
    LET path == Split(list_key, ".")
        first == IF off = None THEN 0 ELSE off
    IN  {Nest(path, PyList(Records(first, n))) : n \in 0..MaxPage}
        \cup {Nest(path, YearsValue)}
        \cup Unresolved(path)

\* status 200, JSON, with or without the rate-limit headers
DataResponses(list_key, off) ==
    {Response(200, CtJson, rl, DataBody(count, env)) :
        rl \in {<<>>, <<60, 0>>},
        count \in {None} \cup (0..MaxCount),
        env \in Envelopes(list_key, off)}

Messages == SeqsUpTo(Chars, MaxMsgLen)

XmlAttrs ==
    { << <<"code", PyInt(400)>>, <<"message", PyStr(<<"a", " ", "a">>)>> >>,
      << <<"code", PyInt(500)>>, <<"message", PyStr(<<"a">>)>> >>,
      <<>> }

XmlResponses ==
    {Response(st, ct, <<>>, XmlBody(attrs)) :
        st \in Statuses, ct \in {CtXml, CtXmlCharset}, attrs \in XmlAttrs}

\* neither JSON nor XML, or no content-type header at all
OtherResponses ==
    {Response(st, ct, rl, HtmlBody) :
        st \in Statuses, ct \in {CtHtml, PyNone}, rl \in {<<>>, <<60, 0>>}}

\* JSON with a status other than 200: an error body, or a body without the error keys
JsonErrorResponses ==
  UNION {
    {Response(st, CtJson, rl, body) :
        rl \in {<<>>, <<60, 0>>},
        body \in {ErrorBody(st, m) : m \in Messages} \cup {PyDict(<<>>)}}
    : st \in Statuses \ {200}}

ErrorResponses == XmlResponses \cup OtherResponses \cup JsonErrorResponses

\* one response of each failure of the classification
SampleErrorResponses ==
    { Response(500, CtXml, <<>>,
               XmlBody(<< <<"code", PyInt(500)>>, <<"message", PyStr(<<"a">>)>> >>)),
      Response(200, CtHtml, <<>>, HtmlBody),
      Response(429, CtJson, <<>>, ErrorBody(429, <<"a", " ", " ", "a">>)),
      Response(404, CtJson, <<>>, PyDict(<<>>)) }

\* the page of a server that holds a number of records and answers a request
\* with count = that number and the records at positions [offset, offset+limit)
\* (all of them when the request carries no limit)
ConsistentPages(list_key, limit, off, records) ==
    LET first == IF off = None THEN 0 ELSE off
        left == IF records > first THEN records - first ELSE 0
        n == IF limit = None THEN left ELSE Min(limit, left)
    IN  {Response(200, CtJson, MockRateHeaders,
                  DataBody(records, Nest(Split(list_key, "."), PyList(Records(first, n)))))}

\* any data page, or one of the sample failures
PageResponse(list_key, off) == DataResponses(list_key, off) \cup SampleErrorResponses

(***************************************************************************)
(* Client.__init__                                                         *)
(***************************************************************************)
\* the client after Client.__init__ with one of the given limiter settings
\* <<ratelimiter_enabled, ratelimiter_max_calls, ratelimiter_period>>, and a
\* server holding one of the given numbers of records
InitWith(settings, collections) ==
    /\ rate_limit = 120
    /\ rate_limit_remaining = None
    /\ rate_limit_last_check = None
    /\ config \in settings
    /\ rate_limiter = MakeLimiter(config[1], config[2], config[3])
    /\ server \in collections
    /\ lock = 0
    /\ now = 0
    /\ pc = [c \in Threads |-> "idle"]
    /\ args = [c \in Threads |-> NoArgs]
    /\ offset = [c \in Threads |-> None]
    /\ result = [c \in Threads |-> <<>>]
    /\ request_number = [c \in Threads |-> 1]
    /\ url = [c \in Threads |-> NoUrl]
    /\ res = [c \in Threads |-> NoRes]
    /\ until = [c \in Threads |-> 0]
    /\ outcome = [c \in Threads |-> NoOutcome]
    /\ sent = [c \in Threads |-> <<>>]
    /\ gated = [c \in Threads |-> 0]
    /\ logged = [c \in Threads |-> <<>>]
    /\ sendTimes = <<>>
    /\ callsMade = 0

\* a client without rate limiter, as GeoFRED constructs it (line 3780)
Init == InitWith({<<FALSE, 2, 1>>}, {0})

(***************************************************************************)
(* Client.get                                                              *)
(***************************************************************************)
CallWithSharedAccumulator(c, K) ==
    /\ pc[c] = "idle"
    /\ callsMade < MaxCalls
    /\ \E list_key \in ListKeys, limit \in Limits, kwargs \in K :
          /\ args' = [args EXCEPT ![c] = [endpoint |-> Endpoint, list_key |-> list_key,
                                           limit |-> limit, kwargs |-> kwargs]]
          /\ offset' = [offset EXCEPT ![c] = IF limit # None THEN 0 ELSE None]
    /\ result' = [result EXCEPT ![c] = result[CHOOSE d \in Threads : d # c]]
    /\ request_number' = [request_number EXCEPT ![c] = 1]
    /\ outcome' = [outcome EXCEPT ![c] = NoOutcome]
    /\ sent' = [sent EXCEPT ![c] = <<>>]
    /\ gated' = [gated EXCEPT ![c] = 0]
    /\ logged' = [logged EXCEPT ![c] = <<>>]
    /\ callsMade' = callsMade + 1
    /\ pc' = [pc EXCEPT ![c] = "loop"]
    /\ UNCHANGED <<clientVars, now, url, res, until, sendTimes, config, server>>

\* lines 94-99: the call starts, with keyword arguments of K
CallWith(c, K) ==
    /\ pc[c] = "idle"
    /\ callsMade < MaxCalls
    /\ \E list_key \in ListKeys, limit \in Limits, kwargs \in K :
          /\ args' = [args EXCEPT ![c] = [endpoint |-> Endpoint, list_key |-> list_key,
                                           limit |-> limit, kwargs |-> kwargs]]
          /\ offset' = [offset EXCEPT ![c] = IF limit # None THEN 0 ELSE None]
    /\ result' = [result EXCEPT ![c] = <<>>]
    /\ request_number' = [request_number EXCEPT ![c] = 1]
    /\ outcome' = [outcome EXCEPT ![c] = NoOutcome]
    /\ sent' = [sent EXCEPT ![c] = <<>>]
    /\ gated' = [gated EXCEPT ![c] = 0]
    /\ logged' = [logged EXCEPT ![c] = <<>>]
    /\ callsMade' = callsMade + 1
    /\ pc' = [pc EXCEPT ![c] = "loop"]
    /\ UNCHANGED <<clientVars, now, url, res, until, sendTimes, config, server>>

\* a call with the keyword arguments search_text = 'a a'
Call(c) == CallWith(c, {Kwargs})

\* lines 103-111: the URL of the next request
RequestUrl(c) ==
    create(args[c].endpoint,
           DictMerge(args[c].kwargs,
                     PyDict(<< <<"limit", OptInt(args[c].limit)>>,
                               <<"offset", OptInt(offset[c])>> >>)))

EntersGateOnce(ordinal) == ordinal = 1

\* line 113: the with statement is inside the loop, so the request of every
\* iteration enters the rate gate
EntersGate(ordinal) == TRUE

EnterRaisingWhenFull(c) ==
    /\ pc[c] = "loop"
    /\ Len(sent[c]) < MaxRequests
    /\ rate_limiter.kind = "RateLimiter" => lock = 0
    /\ url' = [url EXCEPT ![c] = RequestUrl(c)]
    /\ gated' = [gated EXCEPT ![c] = @ + 1]
    /\ IF SleepTime(rate_limiter, now) > 0
       THEN /\ pc' = [pc EXCEPT ![c] = "failed"]
            /\ outcome' = [outcome EXCEPT ![c] = Raised(Exc("Exception", "rate limit", <<>>))]
       ELSE /\ pc' = [pc EXCEPT ![c] = "send"]
            /\ UNCHANGED outcome
    /\ UNCHANGED <<rate_limit, rate_limit_remaining, rate_limit_last_check, rate_limiter,
                   now, args, offset, result, request_number, res, until, lock,
                   sent, logged, sendTimes, callsMade, config, server>>

\* lines 101-113: the loop head builds the URL and enters the rate gate, where
\* it starts to sleep if the period is full
Enter(c) ==
    /\ pc[c] = "loop"
    /\ Len(sent[c]) < MaxRequests
    /\ rate_limiter.kind = "RateLimiter" => lock = 0
    /\ url' = [url EXCEPT ![c] = RequestUrl(c)]
    /\ gated' = [gated EXCEPT ![c] = IF EntersGate(request_number[c]) THEN @ + 1 ELSE @]
    /\ IF EntersGate(request_number[c]) /\ SleepTime(rate_limiter, now) > 0
       THEN /\ until' = [until EXCEPT ![c] = now + SleepTime(rate_limiter, now)]
            /\ lock' = c
            /\ pc' = [pc EXCEPT ![c] = "sleep"]
       ELSE /\ pc' = [pc EXCEPT ![c] = "send"]
            /\ UNCHANGED <<until, lock>>
    /\ UNCHANGED <<rate_limit, rate_limit_remaining, rate_limit_last_check, rate_limiter,
                   now, args, offset, result, request_number, res, outcome,
                   sent, logged, sendTimes, callsMade, config, server>>

\* RateLimiter.__enter__ returns when the sleep is over
Wake(c) ==
    /\ pc[c] = "sleep"
    /\ now >= until[c]
    /\ lock' = 0
    /\ pc' = [pc EXCEPT ![c] = "send"]
    /\ UNCHANGED <<rate_limit, rate_limit_remaining, rate_limit_last_check, rate_limiter,
                   now, localVars, historyVars, config, server>>

SendPrefetching(c, R) ==
    /\ pc[c] \in {"send", "sent"}
    /\ \E r \in R : res' = [res EXCEPT ![c] = r]
    /\ sent' = [sent EXCEPT ![c] = Append(@, url[c])]
    /\ sendTimes' = IF config[1] THEN Append(sendTimes, now) ELSE sendTimes
    /\ pc' = [pc EXCEPT ![c] = "sent"]
    /\ UNCHANGED <<clientVars, now, args, offset, result, request_number, url, until,
                   outcome, gated, logged, callsMade, config, server>>

\* line 115: the request goes out and the server answers with a response of R
Send(c, R) ==
    /\ pc[c] = "send"
    /\ \E r \in R : res' = [res EXCEPT ![c] = r]
    /\ sent' = [sent EXCEPT ![c] = Append(@, url[c])]
    /\ sendTimes' = IF config[1] THEN Append(sendTimes, now) ELSE sendTimes
    /\ pc' = [pc EXCEPT ![c] = "sent"]
    /\ UNCHANGED <<clientVars, now, args, offset, result, request_number, url, until,
                   outcome, gated, logged, callsMade, config, server>>

\* lines 132-134: the telemetry after a status-200 JSON response received at
\* time t, and the KeyError raised if a rate-limit header is missing
Telemetry(headers, t, old) ==
    IF ~DictHas(headers, "x-rate-limit-limit")
    THEN [old EXCEPT !.exc = KeyError("x-rate-limit-limit")]
    ELSE IF ~DictHas(headers, "x-rate-limit-remaining")
         THEN [old EXCEPT !.rate_limit = DictGet(headers, "x-rate-limit-limit", PyNone).v,
                          !.exc = KeyError("x-rate-limit-remaining")]
    ELSE [rate_limit |-> DictGet(headers, "x-rate-limit-limit", PyNone).v,
          remaining |-> DictGet(headers, "x-rate-limit-remaining", PyNone).v,
          last_check |-> t,
          exc |-> NoExc]

PropagateRetried(step, exc) == [step EXCEPT !.next = "loop"]

\* a raise statement inside the with block inside the loop: no handler catches
\* the exception, it ends the loop and the call (step.next is "raise")
Propagate(step, exc) == [step EXCEPT !.exc = exc]

HandleTelemetryFirst(c) ==
    LET cls == Classify(res[c], url[c])
        old == [rate_limit |-> rate_limit, remaining |-> rate_limit_remaining,
                last_check |-> rate_limit_last_check, exc |-> NoExc]
        keep == Step("raise", <<>>, NoExc, offset[c], result[c], request_number[c], <<>>)
        tel == Telemetry(res[c].headers, now, old)
    IN  IF cls.kind = "raise"
        THEN [tel |-> [tel EXCEPT !.exc = NoExc], step |-> Propagate(keep, cls.exc)]
        ELSE IF tel.exc # NoExc
             THEN [tel |-> tel, step |-> Propagate(keep, tel.exc)]
             ELSE [tel |-> tel,
                   step |-> PageStep(args[c].limit, offset[c], result[c],
                                     request_number[c], cls.data, args[c].list_key)]

\* lines 115-153 for the response in res[c]: what the call does next and the
\* new values of the client's telemetry and of the call's local variables
Handle(c) ==
    LET cls == Classify(res[c], url[c])
        old == [rate_limit |-> rate_limit, remaining |-> rate_limit_remaining,
                last_check |-> rate_limit_last_check, exc |-> NoExc]
        keep == Step("raise", <<>>, NoExc, offset[c], result[c], request_number[c], <<>>)
    IN  IF cls.kind = "raise"
        THEN [tel |-> old, step |-> Propagate(keep, cls.exc)]
        ELSE LET tel == Telemetry(res[c].headers, now, old)
             IN  IF tel.exc # NoExc
                 THEN [tel |-> tel, step |-> Propagate(keep, tel.exc)]
                 ELSE [tel |-> tel,
                       step |-> PageStep(args[c].limit, offset[c], result[c],
                                         request_number[c], cls.data, args[c].list_key)]

\* lines 115-155: the response is classified and its page processed; the with
\* block is left (RateLimiter.__exit__), also when the call raises or returns.
\* When the loop goes on, res is dead until line 115 assigns it again.
Process(c) ==
    /\ pc[c] = "sent"
    /\ rate_limiter.kind = "RateLimiter" => lock = 0
    /\ LET h == Handle(c)
       IN  /\ rate_limit' = h.tel.rate_limit
           /\ rate_limit_remaining' = h.tel.remaining
           /\ rate_limit_last_check' = h.tel.last_check
           /\ offset' = [offset EXCEPT ![c] = h.step.offset]
           /\ result' = [result EXCEPT ![c] = h.step.result]
           /\ request_number' = [request_number EXCEPT ![c] = h.step.request_number]
           /\ logged' = [logged EXCEPT ![c] = IF h.step.logged = <<>> THEN @
                                              ELSE h.step.logged]
           /\ outcome' = [outcome EXCEPT ![c] =
                             IF h.step.next = "return" THEN Returned(h.step.value)
                             ELSE IF h.step.next = "raise" THEN Raised(h.step.exc)
                             ELSE @]
           /\ pc' = [pc EXCEPT ![c] = IF h.step.next = "return" THEN "done"
                                      ELSE IF h.step.next = "raise" THEN "failed"
                                      ELSE "loop"]
           /\ res' = [res EXCEPT ![c] = IF h.step.next = "loop" THEN NoRes ELSE @]
    /\ rate_limiter' = LimiterExit(rate_limiter, now)
    /\ UNCHANGED <<lock, now, args, url, until, sent, gated, sendTimes, callsMade, config, server>>

\* the caller takes the result or the exception; the call's frame is gone
Return(c) ==
    /\ pc[c] \in {"done", "failed"}
    /\ pc' = [pc EXCEPT ![c] = "idle"]
    /\ args' = [args EXCEPT ![c] = NoArgs]
    /\ offset' = [offset EXCEPT ![c] = None]
    /\ result' = [result EXCEPT ![c] = <<>>]
    /\ request_number' = [request_number EXCEPT ![c] = 1]
    /\ url' = [url EXCEPT ![c] = NoUrl]
    /\ res' = [res EXCEPT ![c] = NoRes]
    /\ until' = [until EXCEPT ![c] = 0]
    /\ outcome' = [outcome EXCEPT ![c] = NoOutcome]
    /\ sent' = [sent EXCEPT ![c] = <<>>]
    /\ gated' = [gated EXCEPT ![c] = 0]
    /\ logged' = [logged EXCEPT ![c] = <<>>]
    /\ UNCHANGED <<clientVars, now, sendTimes, callsMade, config, server>>

\* time passes
Tick ==
    /\ now < MaxTime
    /\ now' = now + 1
    /\ UNCHANGED <<clientVars, pc, localVars, historyVars, config, server>>

(***************************************************************************)
(* One thread calls Client.get on a client without rate limiter, one call   *)
(* after the other, against a server that answers each request with any    *)
(* data page or a sample failure.                                          *)
(***************************************************************************)
Next ==
    \/ Call(MainThread)
    \/ Enter(MainThread)
    \/ Send(MainThread, PageResponse(args[MainThread].list_key, offset[MainThread]))
    \/ Process(MainThread)
    \/ Return(MainThread)

Spec == Init /\ [][Next]_vars

(***************************************************************************)
(* One thread calls Client.get on a client with any limiter setting, while *)
(* time passes, against a server that holds a number of records and serves *)
(* them page by page.                                                      *)
(***************************************************************************)
LimiterSettings ==
    {<<FALSE, 2, 1>>} \cup {<<TRUE, m, p>> : m \in 1..MaxQuota, p \in 1..MaxPeriod}

InitServer == InitWith(LimiterSettings, 0..MaxCount)

ServerPage(c) == ConsistentPages(args[c].list_key, args[c].limit, offset[c], server)

NextServer ==
    \/ Call(MainThread)
    \/ Enter(MainThread)
    \/ Wake(MainThread)
    \/ Send(MainThread, ServerPage(MainThread))
    \/ Process(MainThread)
    \/ Return(MainThread)
    \/ Tick

SpecServer == InitServer /\ [][NextServer]_vars

(***************************************************************************)
(* One thread calls Client.get on a client without rate limiter against a  *)
(* server that answers each request with its page or with any failure.     *)
(***************************************************************************)
InitFailing == InitWith({<<FALSE, 2, 1>>}, 0..MaxCount)

NextFailing ==
    \/ Call(MainThread)
    \/ Enter(MainThread)
    \/ Send(MainThread, ServerPage(MainThread) \cup ErrorResponses)
    \/ Process(MainThread)
    \/ Return(MainThread)

SpecFailing == InitFailing /\ [][NextFailing]_vars

(***************************************************************************)
(* URLFactory.create applied to parameter mappings, and Client.get called  *)
(* with keyword arguments of which some are None, against a server that    *)
(* holds one record.                                                       *)
(***************************************************************************)
UrlChars == {"a", " ", "&", "=", ";"}

\* string values: every string of up to MaxValueLen characters
StringValues == {PyStr(s) : s \in SeqsUpTo(UrlChars, MaxValueLen)}

\* list values: every list of up to MaxListLen of these strings
ListElements ==
    {PyStr(<<"a">>), PyStr(<<"b">>), PyStr(<<"a", ";">>), PyStr(<<"a", " ", "b">>),
     PyStr(<<>>)}

ListValues == {PyList(l) : l \in SeqsUpTo(ListElements, MaxListLen)}

\* SortOrder.desc and Seasonality.nsa of enums.py; the datetime of the comment
\* at line 48 and another; integers, a date
OtherValues ==
    {PyBool(TRUE), PyBool(FALSE),
     PyEnum("desc", PyStr(<<"d", "e", "s", "c">>)), PyEnum("nsa", PyStr(<<"N", "S", "A">>)),
     PyDatetime(2018, 3, 2, 2, 20), PyDatetime(1999, 12, 31, 23, 5),
     PyInt(0), PyInt(125), PyDate(2018, 3, 2), PyNone}

ParamValues == StringValues \cup ListValues \cup OtherValues

PlainValues == {PyNone, PyInt(1)}

ParamNames == {"search_text", "tag_names", "api_key"}

\* the sequences of up to n different names
NameSeqs(n) ==
    {s \in SeqsUpTo(ParamNames, n) : \A i, j \in 1..Len(s) : i # j => s[i] # s[j]}

\* the mappings of up to MaxParams parameters: one holds any value, the
\* others None or an integer
ParamMappings ==
    {PyDict(<<>>)} \cup
    UNION { UNION { { PyDict([i \in 1..Len(names) |->
                                <<names[i], IF i = at THEN v ELSE plain[i]>>]) :
                        v \in ParamValues, plain \in [1..Len(names) -> PlainValues] }
                    : at \in 1..Len(names) }
            : names \in NameSeqs(MaxParams) \ {<<>>} }

\* keyword arguments as the wrappers pass them: some of them None
CallKwargs ==
    {Kwargs, PyDict(<<>>),
     PyDict(<< <<"realtime_start", PyNone>>, <<"tag_names", PyList(<<PyStr(<<"a">>)>>)>>,
               <<"realtime_end", PyNone>> >>)}

InitUrl == InitWith({<<FALSE, 2, 1>>}, {1})

\* URLFactory.create(endpoint, params) is applied to a mapping
Create(c) ==
    /\ pc[c] = "idle"
    /\ \E params \in ParamMappings :
          /\ args' = [args EXCEPT ![c] = [endpoint |-> Endpoint, list_key |-> <<>>,
                                           limit |-> None, kwargs |-> params]]
          /\ url' = [url EXCEPT ![c] = create(Endpoint, params)]
    /\ pc' = [pc EXCEPT ![c] = "built"]
    /\ UNCHANGED <<clientVars, now, offset, result, request_number, res, until, outcome,
                   historyVars, config, server>>

\* the URL built is dropped
Forget(c) ==
    /\ pc[c] = "built"
    /\ pc' = [pc EXCEPT ![c] = "idle"]
    /\ args' = [args EXCEPT ![c] = NoArgs]
    /\ url' = [url EXCEPT ![c] = NoUrl]
    /\ UNCHANGED <<clientVars, now, offset, result, request_number, res, until, outcome,
                   historyVars, config, server>>

NextUrl ==
    \/ Create(MainThread)
    \/ Forget(MainThread)
    \/ CallWith(MainThread, CallKwargs)
    \/ Enter(MainThread)
    \/ Send(MainThread, ServerPage(MainThread))
    \/ Process(MainThread)
    \/ Return(MainThread)

SpecUrl == InitUrl /\ [][NextUrl]_vars

(***************************************************************************)
(* Wrapper methods: FRED.category and FRED.series_updates of client.py and *)
(* FRED.category_children of alfred.py validate their parameters and then  *)
(* call Client.get.  A date is compared by (year, month, day), a datetime  *)
(* by (year, month, day, hour, minute).                                    *)
(***************************************************************************)
DateKey(v) == (v.year * 12 + v.month) * 31 + v.day
TimeKey(v) == (DateKey(v) * 24 + v.hour) * 60 + v.minute

\* date(1776, 7, 4)
MinDate == PyDate(1776, 7, 4)

\* date.today()
Today == PyDate(2020, 1, 1)

ValueError(template, fmt_args) == Exc("ValueError", template, fmt_args)

\* limit=1000 of FRED.series_updates
SeriesUpdatesLimit == 1000

\* what a wrapper does with its parameters: the ValueError it raises (NoExc
\* if none) and the Client.get call it makes otherwise
Wrapped(error, endpoint, list_key, limit, kwargs) ==
    [error |-> error, endpoint |-> endpoint, list_key |-> list_key, limit |-> limit,
     kwargs |-> kwargs]

\* FRED.category, client.py lines 232-239
category(p) ==
    LET category_id == DictGet(p, "category_id", PyNone)
    IN  Wrapped(IF category_id.v < 0
                THEN ValueError("Variable category_id is not 0 or a positive integer.", <<>>)
                ELSE NoExc,
                "/fred/category", <<"c", "a", "t", "e", "g", "o", "r", "i", "e", "s">>, None,
                PyDict(<< <<"category_id", category_id>> >>))

series_updates_unordered_times(p) ==
    LET realtime_start == DictGet(p, "realtime_start", PyNone)
        realtime_end == DictGet(p, "realtime_end", PyNone)
        start_time == DictGet(p, "start_time", PyNone)
        end_time == DictGet(p, "end_time", PyNone)
        error ==
            IF start_time # PyNone /\ end_time = PyNone
            THEN ValueError("end_time is required if start_time is set", <<>>)
            ELSE IF end_time # PyNone /\ start_time = PyNone
            THEN ValueError("start_time is required if end_time is set", <<>>)
            ELSE IF realtime_start # PyNone /\ DateKey(realtime_start) < DateKey(MinDate)
            THEN ValueError("Variable realtime_start (\"{}\") is before min date 1776-07-04.",
                            <<realtime_start>>)
            ELSE IF /\ realtime_start # PyNone /\ realtime_end # PyNone
                    /\ DateKey(realtime_start) > DateKey(realtime_end)
            THEN ValueError("The date set by variable realtime_start (\"{}\") can not be after the date set by variable realtime_end (\"{}\").",
                            <<realtime_start, realtime_end>>)
            ELSE NoExc
    IN  Wrapped(error, "/fred/series/updates", ListKeyFlat, SeriesUpdatesLimit,
                PyDict(<< <<"realtime_start", realtime_start>>,
                          <<"realtime_end", realtime_end>>,
                          <<"filter_value", DictGet(p, "filter_value", PyNone)>>,
                          <<"start_time", start_time>>, <<"end_time", end_time>> >>))

\* FRED.series_updates, client.py lines 2883-2912 (filter_value a member of
\* enums.FilterValue)
series_updates(p) ==
    LET realtime_start == DictGet(p, "realtime_start", PyNone)
        realtime_end == DictGet(p, "realtime_end", PyNone)
        start_time == DictGet(p, "start_time", PyNone)
        end_time == DictGet(p, "end_time", PyNone)
        error ==
            IF start_time # PyNone /\ end_time = PyNone
            THEN ValueError("end_time is required if start_time is set", <<>>)
            ELSE IF end_time # PyNone /\ start_time = PyNone
            THEN ValueError("start_time is required if end_time is set", <<>>)
            ELSE IF /\ start_time # PyNone /\ end_time # PyNone
                    /\ TimeKey(start_time) >= TimeKey(end_time)
            THEN ValueError("end_time must be greater than start_time", <<>>)
            ELSE IF realtime_start # PyNone /\ DateKey(realtime_start) < DateKey(MinDate)
            THEN ValueError("Variable realtime_start (\"{}\") is before min date 1776-07-04.",
                            <<realtime_start>>)
            ELSE IF /\ realtime_start # PyNone /\ realtime_end # PyNone
                    /\ DateKey(realtime_start) > DateKey(realtime_end)
            THEN ValueError("The date set by variable realtime_start (\"{}\") can not be after the date set by variable realtime_end (\"{}\").",
                            <<realtime_start, realtime_end>>)
            ELSE NoExc
    IN  Wrapped(error, "/fred/series/updates", ListKeyFlat, SeriesUpdatesLimit,
                PyDict(<< <<"realtime_start", realtime_start>>,
                          <<"realtime_end", realtime_end>>,
                          <<"filter_value", DictGet(p, "filter_value", PyNone)>>,
                          <<"start_time", start_time>>, <<"end_time", end_time>> >>))

\* FRED.category_children, alfred.py lines 170-191
category_children(p) ==
    LET given_start == DictGet(p, "realtime_start", PyNone)
        given_end == DictGet(p, "realtime_end", PyNone)
        realtime_start == IF given_start = PyNone THEN Today ELSE given_start
        realtime_end == IF given_end = PyNone THEN Today ELSE given_end
        error ==
            IF DateKey(realtime_start) < DateKey(MinDate)
            THEN ValueError("Variable realtime_start (\"{}\") is before min date 1776-07-04.",
                            <<realtime_start>>)
            ELSE IF DateKey(realtime_end) > DateKey(Today)
            THEN ValueError("Variable realtime_end (\"{}\") can not be after today's date (\"{}\")",
                            <<realtime_end, Today>>)
            ELSE IF DateKey(realtime_start) > DateKey(realtime_end)
            THEN ValueError("The date set by variable realtime_start (\"{}\") can not be after the date set by variable realtime_end (\"{}\").",
                            <<realtime_start, realtime_end>>)
            ELSE NoExc
    IN  Wrapped(error, "/fred/category/children",
                <<"c", "a", "t", "e", "g", "o", "r", "i", "e", "s">>, None,
                PyDict(<< <<"category_id", DictGet(p, "category_id", PyNone)>>,
                          <<"realtime_start", realtime_start>>,
                          <<"realtime_end", realtime_end>> >>))

\* the parameter values the wrappers are called with
CategoryIds == {PyInt(-1), PyInt(0), PyInt(125)}
Dates == {PyDate(1776, 7, 3), PyDate(1776, 7, 4), PyDate(2018, 3, 2), PyDate(2030, 1, 1)}
Times == {PyDatetime(2018, 3, 2, 2, 20), PyDatetime(2018, 3, 2, 14, 5)}
OptDates == Dates \cup {PyNone}
OptTimes == Times \cup {PyNone}
FilterValueAll == PyEnum("all", PyStr(<<"a", "l", "l">>))

\* the calls of wrapper methods: the method and its parameters
Invocations ==
    { [method |-> "category", params |-> PyDict(<< <<"category_id", id>> >>)] :
        id \in CategoryIds }
    \cup
    { [method |-> "series_updates",
       params |-> PyDict(<< <<"realtime_start", rs>>, <<"realtime_end", re>>,
                            <<"filter_value", FilterValueAll>>,
                            <<"start_time", st>>, <<"end_time", et>> >>)] :
        rs \in OptDates, re \in OptDates, st \in OptTimes, et \in OptTimes }
    \cup
    { [method |-> "category_children",
       params |-> PyDict(<< <<"category_id", id>>, <<"realtime_start", rs>>,
                            <<"realtime_end", re>> >>)] :
        id \in CategoryIds, rs \in OptDates, re \in OptDates }

Dispatch(inv) ==
    IF inv.method = "category" THEN category(inv.params)
    ELSE IF inv.method = "series_updates" THEN series_updates(inv.params)
    ELSE category_children(inv.params)

\* a wrapper method is called: it raises the ValueError of its validation, or
\* calls Client.get (lines 94-99).  When it raises, args keeps the wrapper's
\* own parameters.
Invoke(c) ==
    /\ pc[c] = "idle"
    /\ callsMade < MaxCalls
    /\ \E inv \in Invocations :
          LET w == Dispatch(inv)
          IN  IF w.error # NoExc
              THEN /\ args' = [args EXCEPT ![c] = [endpoint |-> w.endpoint,
                                                    list_key |-> w.list_key,
                                                    limit |-> w.limit,
                                                    kwargs |-> inv.params]]
                   /\ offset' = [offset EXCEPT ![c] = None]
                   /\ outcome' = [outcome EXCEPT ![c] = Raised(w.error)]
                   /\ pc' = [pc EXCEPT ![c] = "failed"]
                   /\ UNCHANGED callsMade
              ELSE /\ args' = [args EXCEPT ![c] = [endpoint |-> w.endpoint,
                                                    list_key |-> w.list_key,
                                                    limit |-> w.limit,
                                                    kwargs |-> w.kwargs]]
                   /\ offset' = [offset EXCEPT ![c] = IF w.limit # None THEN 0 ELSE None]
                   /\ outcome' = [outcome EXCEPT ![c] = NoOutcome]
                   /\ pc' = [pc EXCEPT ![c] = "loop"]
                   /\ callsMade' = callsMade + 1
    /\ result' = [result EXCEPT ![c] = <<>>]
    /\ request_number' = [request_number EXCEPT ![c] = 1]
    /\ sent' = [sent EXCEPT ![c] = <<>>]
    /\ gated' = [gated EXCEPT ![c] = 0]
    /\ logged' = [logged EXCEPT ![c] = <<>>]
    /\ UNCHANGED <<clientVars, now, url, res, until, sendTimes, config, server>>

InitWrappers == InitWith(LimiterSettings, {1})

NextWrappers ==
    \/ Invoke(MainThread)
    \/ Enter(MainThread)
    \/ Wake(MainThread)
    \/ Send(MainThread, ServerPage(MainThread))
    \/ Process(MainThread)
    \/ Return(MainThread)
    \/ Tick

SpecWrappers == InitWrappers /\ [][NextWrappers]_vars

(***************************************************************************)
(* Properties.                                                             *)
(***************************************************************************)
\* the value of a query parameter of a URL, PyNone if the URL has none
UrlParam(u, name) == DictGet(PyDict(u.query), name, PyNone)

\* the offsets 0, L, 2L, ... of n requests
OffsetsOf(L, n) == [i \in 1..n |-> PyInt((i - 1) * L)]

\* the offset parameters of the requests a call has sent
SentOffsets(c) == [i \in 1..Len(sent[c]) |-> UrlParam(sent[c][i], "offset")]

\* C1: against a server that holds `server` records and serves them page by
\* page, a call with page size L >= 1 never fails, its requests carry the
\* offsets 0, L, 2L, ..., and it returns exactly the server's records in
\* server order after floor(server / L) + 1 requests.
C1_PaginationComplete ==
    \A c \in Threads :
        args[c].limit # None =>
            /\ pc[c] # "failed"
            /\ SentOffsets(c) = OffsetsOf(args[c].limit, Len(sent[c]))
            /\ pc[c] = "done" =>
                  /\ outcome[c] = Returned(Records(0, server))
                  /\ Len(sent[c]) = (server \div args[c].limit) + 1

\* a call with page size 1 has fetched 2 records in 3 requests
C1_Witness ==
    \E c \in Threads :
        /\ pc[c] = "done" /\ args[c].limit = 1 /\ server = 2
        /\ Len(sent[c]) = 3 /\ Len(outcome[c].value) = 2

\* the response is a status-200 JSON page carrying the rate-limit headers
IsPage(r) ==
    /\ r.status = 200
    /\ DictGet(r.headers, "content-type", PyNone) = CtJson
    /\ DictHas(r.headers, "x-rate-limit-limit")
    /\ DictHas(r.headers, "x-rate-limit-remaining")

\* the value a JSON body holds at a dotted key path, PyNone if it holds none
RECURSIVE ValueAt(_, _)
ValueAt(body, path) ==
    IF body.t # "dict" \/ ~DictHas(body, Head(path)) THEN PyNone
    ELSE IF Len(path) = 1 THEN DictGet(body, Head(path), PyNone)
    ELSE ValueAt(DictGet(body, Head(path), PyNone), Tail(path))

PathOf(c) == Split(args[c].list_key, ".")

\* the page in res[c] reports a count
HasCount(c) == IsPage(res[c]) /\ DictHas(res[c].body, KeyCount)

CountOf(c) == DictGet(res[c].body, KeyCount, PyNone).v

\* the number of records of the page in res[c]: the length of the list at the
\* key path, none if the path does not lead to a list
RecordsIn(c) ==
    LET v == ValueAt(res[c].body, PathOf(c))
    IN  IF v.t = "list" THEN Len(v.items) ELSE 0

HoldsList(c) == ValueAt(res[c].body, PathOf(c)).t = "list"

\* C2: a page that carries count and holds fewer than pageSize records (or no
\* list of records at all) is the last request of its fetch, whatever count
\* reports: the loop is not entered again.
C2_ShortPageStops ==
    [][\A c \in Threads :
          ( /\ pc[c] = "sent" /\ HasCount(c) /\ args[c].limit # None
            /\ ValueAt(res[c].body, PathOf(c)).t \in {"list", "none"}
            /\ RecordsIn(c) < args[c].limit )
          => pc'[c] \in {"sent", "done", "failed"}]_vars

\* page size 2, a first page of 2 records and a second of 1 record with
\* count 3: two requests, offsets 0 and 2, the 3 records in order
C2_Witness ==
    \E c \in Threads :
        /\ pc[c] = "done" /\ args[c].limit = 2
        /\ HasCount(c) /\ CountOf(c) = 3 /\ RecordsIn(c) = 1
        /\ SentOffsets(c) = <<PyInt(0), PyInt(2)>>
        /\ outcome[c] = Returned(Records(0, 3))

\* C3: a status-200 JSON page without a count field ends the fetch with that
\* request, and the call returns the value at the result key path verbatim if
\* it is a list and a one-element list holding it otherwise.
C3_NoCountLaw ==
    [][\A c \in Threads :
          (pc[c] = "sent" /\ IsPage(res[c]) /\ ~DictHas(res[c].body, KeyCount)
             /\ pc'[c] # "sent")
          => /\ pc'[c] = "done"
             /\ sent'[c] = sent[c]
             /\ LET v == ValueAt(res[c].body, PathOf(c))
                IN  outcome'[c] = Returned(IF v.t = "list" THEN v.items ELSE <<v>>)]_vars

\* a call returned a mapping of years, wrapped in a one-element list
C3_Witness ==
    \E c \in Threads :
        /\ pc[c] = "done" /\ IsPage(res[c]) /\ ~DictHas(res[c].body, KeyCount)
        /\ outcome[c] = Returned(<<YearsValue>>)

\* C4: after a page that carries count, a further request is made
\* if and only if a page size is set, count >= pageSize and the page holds
\* exactly pageSize records.
C4_ContinuationAsClaimed ==
    [][\A c \in Threads :
          (pc[c] = "sent" /\ HasCount(c) /\ HoldsList(c) /\ pc'[c] # "sent")
          => (pc'[c] = "loop" <=>
                /\ args[c].limit # None
                /\ CountOf(c) >= args[c].limit
                /\ RecordsIn(c) = args[c].limit)]_vars

\* a page of two records answered a request for one, and the call goes on to
\* request offset 0 again
C4_Witness ==
    \E c \in Threads :
        /\ pc[c] = "loop" /\ args[c].limit = 1
        /\ request_number[c] = 2 /\ offset[c] = 0 /\ Len(result[c]) = 2

\* the number of sends in any window of `period` ticks is at most max_calls
WindowsRespected(times, max_calls, period) ==
    \A i \in 1..Len(times) :
        i + max_calls <= Len(times) => times[i + max_calls] - times[i] >= period

\* C5: for a client constructed with the limiter enabled and a quota of
\* max_calls per period, no window of duration period (a half-open interval
\* of period ticks) contains more than max_calls network sends.
C5_RateGate == config[1] => WindowsRespected(sendTimes, config[2], config[3])

\* more sends than the quota went through the gate of an enabled limiter
C5_Witness == config[1] /\ Len(sendTimes) > config[2] + 1 /\ config[3] = 2

\* C6: every request of a call is sent after one gate entry made for it: the
\* gate entries of a call are its requests sent, plus one while a request
\* has entered the gate and is not yet sent.
C6_GateBeforeSend ==
    \A c \in Threads :
        gated[c] = Len(sent[c]) + (IF pc[c] \in {"sleep", "send"} THEN 1 ELSE 0)

\* a call of several pages, and a call without page size, are done
C6_Witness ==
    \E c \in Threads :
        /\ pc[c] = "done" /\ gated[c] = Len(sent[c])
        /\ \/ Len(sent[c]) >= 3
           \/ args[c].limit = None

(***************************************************************************)
(* Properties of the classification.                                       *)
(***************************************************************************)
ContentTypeOf(r) == DictGet(r.headers, "content-type", PyNone)

HasXmlType(r) == ContentTypeOf(r) \in {CtXml, CtXmlCharset}

HasJsonType(r) == ContentTypeOf(r) = CtJson

\* the call of thread c has ended and res[c] is its last response
Ended(c) == pc[c] \in {"done", "failed"} /\ sent[c] # <<>>

\* the URL of the last request of the call
LastUrl(c) == sent[c][Len(sent[c])]

TemplateErrorCode == "Received error code: \"{}\" and message: \"{}\" for URL {}"
TemplateContentType == "Unexpected content-type \"{}\" for URL {}"
TemplateStatus == "Received status code: \"{}\" for URL {}"

\* out is message with every run of whitespace replaced by one space and the
\* whitespace at its ends removed
IsNormalized(out, message) ==
    /\ SelectSeq(out, LAMBDA ch : ch # " ") = SelectSeq(message, LAMBDA ch : ch # " ")
    /\ Len(SplitWhitespace(out)) = Len(SplitWhitespace(message))
    /\ out # <<>> => out[1] # " " /\ out[Len(out)] # " "
    /\ \A i \in 1..Len(out) - 1 : ~(out[i] = " " /\ out[i + 1] = " ")

\* the three responses of the claim
CaseXml500(r) ==
    /\ r.status = 500 /\ HasXmlType(r)
    /\ DictHas(r.body.attrs, "code") /\ DictHas(r.body.attrs, "message")

CaseJson429(r) ==
    /\ r.status = 429 /\ HasJsonType(r)
    /\ DictHas(r.body, KeyErrorCode) /\ DictHas(r.body, KeyErrorMessage)

CaseHtml200(r) == r.status = 200 /\ ContentTypeOf(r) = CtHtml

\* what a caller can tell an error by without reading its arguments
ErrorKind(exc) == <<exc.type, exc.template>>

\* the kinds of error that the responses of each case get
KindsOfXml500 ==
    { ErrorKind(Classify(r, NoUrl).exc) : r \in { q \in XmlResponses : CaseXml500(q) } }

KindsOfJson429 ==
    { ErrorKind(Classify(r, NoUrl).exc) : r \in { q \in JsonErrorResponses : CaseJson429(q) } }

KindsOfHtml200 ==
    { ErrorKind(Classify(r, NoUrl).exc) : r \in { q \in OtherResponses : CaseHtml200(q) } }

\* C7: each of the three responses (status 500 with an XML body carrying
\* code and message, status 429 with a JSON body carrying error_code and
\* error_message, status 200 with content type text/html) makes the call fail
\* with an error kind of its own, different from the generic Exception and
\* from the kinds of the other two responses.
C7_DistinctKindsAsClaimed ==
    \A c \in Threads :
        Ended(c) =>
            LET r == res[c]
                kind == ErrorKind(outcome[c].exc)
            IN  /\ (CaseXml500(r) \/ CaseJson429(r) \/ CaseHtml200(r)) =>
                      pc[c] = "failed" /\ outcome[c].exc.type # "Exception"
                /\ CaseXml500(r) => kind \notin KindsOfJson429 \cup KindsOfHtml200
                /\ CaseJson429(r) => kind \notin KindsOfXml500 \cup KindsOfHtml200
                /\ CaseHtml200(r) => kind \notin KindsOfXml500 \cup KindsOfJson429

\* a call has failed on the status-429 JSON response with the generic
\* Exception, of the same kind as the error of the XML response
C7_Witness ==
    \E c \in Threads :
        /\ pc[c] = "failed" /\ CaseJson429(res[c])
        /\ outcome[c].exc.type = "Exception"
        /\ ErrorKind(outcome[c].exc) \in KindsOfXml500

\* C8: a response with an XML content type and a status other than 200 fails
\* with the error of line 120, carrying the code and message attributes of
\* the XML root and the request URL, whatever the status (also one of the
\* statuses that a JSON response would turn into an API error).
C8_XmlErrorFirst ==
    \A c \in Threads :
        (Ended(c) /\ HasXmlType(res[c]) /\ res[c].status # 200)
        => /\ pc[c] = "failed"
           /\ outcome[c].exc =
                 Exc("Exception", TemplateErrorCode,
                     <<DictGet(res[c].body.attrs, "code", PyNone),
                       DictGet(res[c].body.attrs, "message", PyNone), LastUrl(c)>>)

\* a call has failed on an XML response with a charset parameter and status 429
C8_Witness ==
    \E c \in Threads :
        /\ pc[c] = "failed" /\ ContentTypeOf(res[c]) = CtXmlCharset
        /\ res[c].status = 429 /\ DictHas(res[c].body.attrs, "code")

\* C9: a response that has a content type which is not JSON, and that is not
\* XML with a status other than 200, fails with the content-type error
\* carrying the observed type and the request URL, whatever its status.
C9_ContentTypeBeforeStatus ==
    \A c \in Threads :
        ( /\ Ended(c)
          /\ ContentTypeOf(res[c]) # PyNone
          /\ ~HasJsonType(res[c])
          /\ ~(HasXmlType(res[c]) /\ res[c].status # 200) )
        => /\ pc[c] = "failed"
           /\ outcome[c].exc =
                 Exc("Exception", TemplateContentType,
                     <<ContentTypeOf(res[c]), LastUrl(c)>>)

\* calls have failed on text/html with status 500 and on XML with status 200
C9_Witness ==
    \E c \in Threads :
        /\ pc[c] = "failed"
        /\ outcome[c].exc.template = TemplateContentType
        /\ \/ ContentTypeOf(res[c]) = CtHtml /\ res[c].status = 500
           \/ HasXmlType(res[c]) /\ res[c].status = 200

\* C10: a JSON response whose status is 400, 403, 420, 429 or 500 (and whose
\* body carries error_code and error_message) fails with the API error
\* carrying the body's error_code and its whitespace-normalized
\* error_message; a JSON response with any other status than 200 fails with
\* the status error carrying the status; a JSON response with status 200
\* fails with neither.
C10_StatusPartition ==
    \A c \in Threads :
        (Ended(c) /\ HasJsonType(res[c])) =>
            LET st == res[c].status
                exc == outcome[c].exc
            IN  /\ ( /\ st \in {400, 403, 420, 429, 500}
                     /\ DictHas(res[c].body, KeyErrorCode)
                     /\ DictHas(res[c].body, KeyErrorMessage) ) =>
                       /\ pc[c] = "failed"
                       /\ ErrorKind(exc) = <<"Exception", TemplateErrorCode>>
                       /\ Len(exc.args) = 3
                       /\ exc.args[1] = DictGet(res[c].body, KeyErrorCode, PyNone)
                       /\ IsNormalized(exc.args[2].v,
                                       DictGet(res[c].body, KeyErrorMessage, PyNone).v)
                       /\ exc.args[3] = LastUrl(c)
                /\ (st \notin {200, 400, 403, 420, 429, 500}) =>
                       /\ pc[c] = "failed"
                       /\ exc = Exc("Exception", TemplateStatus, <<PyInt(st), LastUrl(c)>>)
                /\ st = 200 =>
                       exc.template \notin {TemplateErrorCode, TemplateStatus}

\* a call has failed with the status error, another with the API error
C10_Witness ==
    \E c \in Threads :
        /\ pc[c] = "failed" /\ HasJsonType(res[c])
        /\ \/ res[c].status = 503 /\ outcome[c].exc.template = TemplateStatus
           \/ res[c].status = 420 /\ outcome[c].exc.template = TemplateErrorCode

(***************************************************************************)
(* Properties of failures and of pages that lack something.                *)
(***************************************************************************)
\* the response is one that lines 117-130 turn into an exception
FailsClassification(r) == ~(r.status = 200 /\ HasJsonType(r))

\* C11: when the response of a request fails, the call ends with the
\* exception alone (no records, whatever result has accumulated) without
\* sending that request again, and a failed call sends nothing more: its next
\* step is the caller taking the exception.
C11_FailureIsTerminal ==
    [][\A c \in Threads :
          /\ (pc[c] = "sent" /\ FailsClassification(res[c])) =>
                /\ pc'[c] = "failed"
                /\ outcome'[c].kind = "raise" /\ outcome'[c].value = <<>>
                /\ outcome'[c].exc # NoExc
                /\ sent'[c] = sent[c]
          /\ pc'[c] = "failed" => outcome'[c].kind = "raise" /\ outcome'[c].value = <<>>
          /\ pc[c] = "failed" =>
                /\ pc'[c] \in {"failed", "idle"}
                /\ pc'[c] = "failed" => sent'[c] = sent[c] /\ outcome'[c] = outcome[c]]_vars

\* the second request of a call failed after the first page's records had
\* been accumulated
C11_Witness ==
    \E c \in Threads :
        /\ pc[c] = "failed" /\ Len(sent[c]) = 2 /\ result[c] # <<>>
        /\ outcome[c].kind = "raise" /\ outcome[c].value = <<>>

\* the response in res[c] is a status-200 JSON page without the rate-limit
\* headers whose body holds a list of records at the key path
IsHeaderlessPage(c) ==
    /\ res[c].status = 200 /\ HasJsonType(res[c])
    /\ ~DictHas(res[c].headers, "x-rate-limit-limit")
    /\ ~DictHas(res[c].headers, "x-rate-limit-remaining")
    /\ HoldsList(c)

\* C12: a status-200 JSON page that does not carry the x-rate-limit-limit and
\* x-rate-limit-remaining headers is processed as a successful page: the call
\* does not fail on it.
C12_HeadersAdvisoryAsClaimed ==
    \A c \in Threads : IsHeaderlessPage(c) => pc[c] # "failed"

\* a call has failed with KeyError on a page of records without the headers
C12_Witness ==
    \E c \in Threads :
        /\ pc[c] = "failed" /\ IsHeaderlessPage(c) /\ RecordsIn(c) > 0
        /\ outcome[c] = Raised(KeyError("x-rate-limit-limit"))

\* the response in res[c] is a status-200 JSON page with the rate-limit
\* headers in whose body the key path does not resolve
IsPageWithoutKey(c) ==
    /\ IsPage(res[c])
    /\ res[c].body \in { DataBody(count, env) :
                           count \in {None} \cup (0..MaxCount),
                           env \in Unresolved(PathOf(c)) }

\* C13: when the result key path, or one of its intermediate keys, is absent
\* from a status-200 JSON response, the call does not raise, with and without
\* a count field and with and without a page size.
C13_MissingKeyAsClaimed ==
    \A c \in Threads : IsPageWithoutKey(c) => pc[c] # "failed"

\* a call has failed with TypeError on a page with count whose key path is absent
C13_Witness ==
    \E c \in Threads :
        /\ pc[c] = "failed" /\ IsPageWithoutKey(c) /\ HasCount(c)
        /\ Len(PathOf(c)) = 2
        /\ outcome[c] = Raised(TypeError)

(***************************************************************************)
(* Properties of URLFactory.create.                                        *)
(***************************************************************************)
\* thread c has applied URLFactory.create to the mapping args[c].kwargs
Built(c) == pc[c] = "built"

FixedNames == {"api_key", "file_type"}

\* the entries of a mapping whose value is not None
Supplied(params) == SelectSeq(params.items, LAMBDA kv : kv[2] # PyNone)

NoFixedName(params) == \A i \in 1..Len(params.items) : params.items[i][1] \notin FixedNames

\* a query string split on '&' and each piece on '='
ParseQuery(payload) ==
    LET pieces == Split(payload, "&")
    IN  [i \in 1..Len(pieces) |-> Split(pieces[i], "=")]

\* the pairs a query string is to hold: the fixed pairs, then the name and
\* the transformed value of each entry
ExpectedPairs(params) ==
    << << <<"api_key">>, ApiKey >>, << <<"file_type">>, <<"j", "s", "o", "n">> >> >>
    \o [i \in 1..Len(Supplied(params)) |->
          << <<Supplied(params)[i][1]>>, Format(TransformValue(Supplied(params)[i][2])) >>]

\* C14: splitting the query string of the URL built from a mapping on '&' and
\* '=' yields exactly the fixed pairs and the transformed pairs of the
\* mapping's entries that are not None, for every string value over an
\* alphabet with '&', '=', ';' and space (stated for mappings that do not
\* name a fixed parameter).
C14_RoundTripAsClaimed ==
    \A c \in Threads :
        (Built(c) /\ NoFixedName(args[c].kwargs))
        => ParseQuery(url[c].payload) = ExpectedPairs(args[c].kwargs)

\* a URL was built from the string 'a&' and its query string splits into
\* more pieces than it has pairs
C14_Witness ==
    \E c \in Threads :
        /\ Built(c)
        /\ args[c].kwargs = PyDict(<< <<"search_text", PyStr(<<"a", "&">>)>> >>)
        /\ Len(ParseQuery(url[c].payload)) = 4

\* the value the URL's query mapping holds for a parameter name
UrlParamOf(c, name) == DictGet(PyDict(url[c].query), name, PyNone)

\* C15: a parameter whose value is a list of strings is encoded as the
\* elements joined by ';', and splitting the encoded value on ';' gives the
\* original list back, for every list (the empty list, elements with ';' or
\* a space included).
C15_ListSeparatorAsClaimed ==
    \A c \in Threads :
        Built(c) =>
            \A i \in 1..Len(args[c].kwargs.items) :
                LET kv == args[c].kwargs.items[i]
                    encoded == UrlParamOf(c, kv[1])
                IN  kv[2].t = "list" =>
                       /\ encoded.t = "str"
                       /\ [j \in 1..Len(Split(encoded.v, ";")) |->
                             PyStr(Split(encoded.v, ";")[j])] = kv[2].items

\* URLs were built from the empty list and from a list with an element 'a b'
C15_Witness ==
    \E c \in Threads :
        /\ Built(c)
        /\ \/ /\ args[c].kwargs = PyDict(<< <<"tag_names", PyList(<<>>)>> >>)
              /\ UrlParamOf(c, "tag_names") = PyStr(<<>>)
           \/ /\ args[c].kwargs =
                    PyDict(<< <<"tag_names", PyList(<<PyStr(<<"a", " ", "b">>)>>)>> >>)
              /\ UrlParamOf(c, "tag_names") = PyStr(<<"a", "+", "b">>)

\* out is the string s with every space replaced by '+' and no other
\* character altered
SpacesReplaced(out, s) ==
    /\ Len(out) = Len(s)
    /\ \A i \in 1..Len(s) : out[i] = (IF s[i] = " " THEN "+" ELSE s[i])

\* the number a string of decimal digits denotes
RECURSIVE DigitsValue(_)
DigitsValue(s) ==
    IF s = <<>> THEN 0
    ELSE 10 * DigitsValue(SubSeq(s, 1, Len(s) - 1))
         + (CHOOSE d \in 0..9 : DigitChars[d + 1] = s[Len(s)])

\* out is the 12-character token YYYYMMDDHHMM of the datetime v
IsTimeToken(out, v) ==
    /\ Len(out) = 12
    /\ \A i \in 1..Len(out) : out[i] \in Range(DigitChars)
    /\ DigitsValue(SubSeq(out, 1, 4)) = v.year
    /\ DigitsValue(SubSeq(out, 5, 6)) = v.month
    /\ DigitsValue(SubSeq(out, 7, 8)) = v.day
    /\ DigitsValue(SubSeq(out, 9, 10)) = v.hour
    /\ DigitsValue(SubSeq(out, 11, 12)) = v.minute

\* the elements of a list of strings, one after the other with ';' between
RECURSIVE Interleaved(_)
Interleaved(items) ==
    IF items = <<>> THEN <<>>
    ELSE LET init == SubSeq(items, 1, Len(items) - 1)
         IN  (IF init = <<>> THEN <<>> ELSE Interleaved(init) \o <<";">>)
             \o items[Len(items)].v

\* out is the rendering of the parameter value v
IsRendering(out, v) ==
    IF v.t = "enum" THEN out.t = "str" /\ SpacesReplaced(out.v, v.value.v)
    ELSE IF v.t = "list" THEN out.t = "str" /\ SpacesReplaced(out.v, Interleaved(v.items))
    ELSE IF v.t = "bool"
         THEN out = (IF v.v THEN PyStr(<<"t", "r", "u", "e">>)
                     ELSE PyStr(<<"f", "a", "l", "s", "e">>))
    ELSE IF v.t = "datetime" THEN out.t = "str" /\ IsTimeToken(out.v, v)
    ELSE IF v.t = "str" THEN out.t = "str" /\ SpacesReplaced(out.v, v.v)
    ELSE out = v

\* C16: in the URL built from a mapping, each value that is not None is
\* rendered as: an enum member, its value; a list, its elements joined by
\* ';'; a bool, 'true' or 'false'; a datetime, the 12-character token
\* YYYYMMDDHHMM; in each resulting string every space is replaced by '+' and no
\* other character altered; an integer or a date is left unchanged.
C16_ValueTransformation ==
    \A c \in Threads :
        Built(c) =>
            \A i \in 1..Len(args[c].kwargs.items) :
                LET kv == args[c].kwargs.items[i]
                IN  kv[2] # PyNone => IsRendering(UrlParamOf(c, kv[1]), kv[2])

\* a URL was built from the datetime 2018-03-02 2:20 of the comment at line 48
C16_Witness ==
    \E c \in Threads :
        /\ Built(c)
        /\ args[c].kwargs =
              PyDict(<< <<"search_text", PyDatetime(2018, 3, 2, 2, 20)>>,
                        <<"tag_names", PyInt(1)>> >>)
        /\ UrlParamOf(c, "search_text")
              = PyStr(<<"2", "0", "1", "8", "0", "3", "0", "2", "0", "2", "2", "0">>)
        /\ UrlParamOf(c, "tag_names") = PyInt(1)

\* thread c has built a URL: by URLFactory.create alone, or at the loop head
\* of Client.get for the request it is about to send
HasUrl(c) == pc[c] \in {"built", "send"}

\* the mapping given to URLFactory.create for that URL
GivenParams(c) ==
    IF pc[c] = "built" THEN args[c].kwargs
    ELSE PyDict(args[c].kwargs.items \o << <<"limit", OptInt(args[c].limit)>>,
                                           <<"offset", OptInt(offset[c])>> >>)

\* C17: every URL built has api_key=<the key given at construction> and
\* file_type=json as its first two parameters, followed by the transformed
\* parameters supplied (those not None) in the order supplied, limit and
\* offset last, each name once, whatever names the mapping holds.
C17_QueryShapeAsClaimed ==
    \A c \in Threads :
        HasUrl(c) =>
            LET q == url[c].query
                given == Supplied(GivenParams(c))
            IN  /\ Len(q) = 2 + Len(given)
                /\ q[1] = <<"api_key", PyStr(ApiKey)>>
                /\ q[2] = <<"file_type", PyStr(<<"j", "s", "o", "n">>)>>
                /\ \A i \in 1..Len(given) :
                      q[2 + i] = <<given[i][1], TransformValue(given[i][2])>>
                /\ \A i, j \in 1..Len(q) : i # j => q[i][1] # q[j][1]

\* a URL was built from a mapping that names api_key, and carries that value
\* in place of the key given at construction
C17_Witness ==
    \E c \in Threads :
        /\ Built(c)
        /\ args[c].kwargs = PyDict(<< <<"api_key", PyStr(<<"a">>)>> >>)
        /\ url[c].payload = <<"api_key", "=", "a", "&", "file_type", "=", "j", "s", "o", "n">>

\* the parameter names a query string holds: the symbols before an '='
\* that start the string or follow an '&'
NamesIn(payload) ==
    {payload[i] : i \in {j \in 1..Len(payload) - 1 :
                            /\ payload[j + 1] = "="
                            /\ payload[j] \notin UrlChars
                            /\ j = 1 \/ payload[j - 1] = "&"}}

\* C18: the URL holds a key=value pair for exactly the fixed parameters and
\* the supplied parameters whose value is not None; a fetch without page size
\* sends neither limit nor offset; a fetch with page size L sends limit=L and
\* an offset with every request, 0 with the first.
C18_AbsentDropped ==
    \A c \in Threads :
        /\ HasUrl(c) =>
              /\ {url[c].query[i][1] : i \in 1..Len(url[c].query)}
                    = FixedNames \cup {kv[1] : kv \in Range(Supplied(GivenParams(c)))}
              /\ \A i \in 1..Len(url[c].query) : url[c].query[i][2] # PyNone
        /\ \A i \in 1..Len(sent[c]) :
              IF args[c].limit = None
              THEN NamesIn(sent[c][i].payload) \cap {"limit", "offset"} = {}
              ELSE /\ {"limit", "offset"} \subseteq NamesIn(sent[c][i].payload)
                   /\ UrlParam(sent[c][i], "limit") = PyInt(args[c].limit)
                   /\ UrlParam(sent[c][i], "offset").t = "int"
                   /\ i = 1 => UrlParam(sent[c][i], "offset") = PyInt(0)
        /\ \A i \in 1..Len(sent[c]) :
              NamesIn(sent[c][i].payload) \ {"limit", "offset"}
                 = FixedNames \cup {kv[1] : kv \in Range(Supplied(args[c].kwargs))}

\* a fetch without page size, called with realtime_start = None, has sent a
\* request without limit, offset and realtime_start; one with page size has
\* sent limit and offset 0
C18_Witness ==
    \E c \in Threads :
        /\ Len(sent[c]) = 1
        /\ \/ /\ args[c].limit = None
              /\ DictHas(args[c].kwargs, "realtime_start")
              /\ NamesIn(sent[c][1].payload) = {"api_key", "file_type", "tag_names"}
           \/ /\ args[c].limit = 2
              /\ args[c].kwargs = PyDict(<<>>)
              /\ sent[c][1].payload =
                    <<"api_key", "=", "k", "e", "y", "&", "file_type", "=", "j", "s", "o", "n",
                      "&", "limit", "=", "2", "&", "offset", "=", "0">>

(***************************************************************************)
(* Properties of the wrapper methods.                                      *)
(***************************************************************************)
\* date a is before date b
DateBefore(a, b) ==
    \/ a.year < b.year
    \/ a.year = b.year /\ a.month < b.month
    \/ a.year = b.year /\ a.month = b.month /\ a.day < b.day

\* datetime a is before datetime b
TimeBefore(a, b) ==
    \/ DateBefore(a, b)
    \/ /\ a.year = b.year /\ a.month = b.month /\ a.day = b.day
       /\ a.hour < b.hour \/ (a.hour = b.hour /\ a.minute < b.minute)

\* the parameters in a (the arguments of a wrapper's call) are ones that the
\* wrapper's validation rejects
InvalidParams(a) ==
    LET p(name) == DictGet(a.kwargs, name, PyNone)
        given(name) == IF p(name) = PyNone THEN Today ELSE p(name)
    IN  IF a.endpoint = "/fred/category" THEN p("category_id").v < 0
        ELSE IF a.endpoint = "/fred/series/updates"
        THEN \/ (p("start_time") = PyNone) # (p("end_time") = PyNone)
             \/ /\ p("start_time") # PyNone /\ p("end_time") # PyNone
                /\ ~TimeBefore(p("start_time"), p("end_time"))
             \/ p("realtime_start") # PyNone /\ DateBefore(p("realtime_start"), PyDate(1776, 7, 4))
             \/ /\ p("realtime_start") # PyNone /\ p("realtime_end") # PyNone
                /\ DateBefore(p("realtime_end"), p("realtime_start"))
        ELSE \/ DateBefore(given("realtime_start"), PyDate(1776, 7, 4))
             \/ DateBefore(Today, given("realtime_end"))
             \/ DateBefore(given("realtime_end"), given("realtime_start"))

BetweenRequests(c) == pc[c] \in {"loop", "sleep", "send"}

\* the requests of the call whose response has been classified and whose
\* records are in result
PagesDone(c) == request_number[c] - 1

\* the requests of the call whose response is not yet classified
InFlight(c) == Len(sent[c]) - PagesDone(c)

\* the records of the page in res[c]
PageRecords(c) == ValueAt(res[c].body, PathOf(c)).items

\* C20: within one Client.get call at most one request is in flight: a request
\* goes out only when every earlier request of the call has had its response
\* classified and its records appended to result (no response is pending, and
\* result holds the records of all earlier pages), and the loop is entered
\* again only with the records of the page just received appended.
C20_SequentialPagination ==
    [][\A c \in Threads :
          /\ BetweenRequests(c) => InFlight(c) = 0 /\ res[c] = NoRes
          /\ pc[c] = "sent" => InFlight(c) = 1
          /\ (sent'[c] # sent[c] /\ sent'[c] # <<>>) =>
                /\ pc[c] = "send" /\ pc'[c] = "sent"
                /\ InFlight(c) = 0 /\ res[c] = NoRes
                /\ sent'[c] = Append(sent[c], url[c])
                /\ result'[c] = result[c]
                /\ Len(sent[c]) > 0 => result[c] = Records(0, offset[c])
          /\ (pc[c] = "sent" /\ pc'[c] = "loop") =>
                /\ result'[c] = result[c] \o PageRecords(c)
                /\ request_number'[c] = request_number[c] + 1
                /\ sent'[c] = sent[c]
                /\ res'[c] = NoRes]_vars

\* the second request of a call is in flight, after the records of the first
\* page were appended
C20_Witness ==
    \E c \in Threads :
        /\ pc[c] = "sent" /\ Len(sent[c]) = 2 /\ InFlight(c) = 1
        /\ result[c] # <<>>

(***************************************************************************)
(* Two threads call Client.get on the same client, which has a rate        *)
(* limiter, while time passes; their steps interleave.                     *)
(***************************************************************************)
EnabledSettings == {<<TRUE, m, p>> : m \in 1..MaxQuota, p \in 1..MaxPeriod}

InitConcurrent == InitWith(EnabledSettings, {1})

NextConcurrent ==
    \/ \E c \in Threads :
          \/ Call(c)
          \/ Enter(c)
          \/ Wake(c)
          \/ Send(c, ServerPage(c))
          \/ Process(c)
          \/ Return(c)
    \/ Tick

SpecConcurrent == InitConcurrent /\ [][NextConcurrent]_vars

\* the completion times the limiter keeps are in order and span less than a period
TrackerIntact ==
    LET calls == rate_limiter.calls
    IN  /\ \A i, j \in 1..Len(calls) : i <= j => calls[i] <= calls[j]
        /\ Len(calls) > 0 => Timespan(calls) < rate_limiter.period

ServerPlan(records, failAt, failure) ==
    [records |-> records, failAt |-> failAt, failure |-> failure]

Failures == SampleErrorResponses \cup {Response(200, CtJson, <<>>, DataBody(None, PyDict(<<>>)))}

ServerPlans ==
    {ServerPlan(n, 0, NoRes) : n \in 0..MaxCount}
        \cup {ServerPlan(n, k, f) : n \in {MaxCount}, k \in 1..2, f \in Failures}

\* the answer of a server following plan srv to the request number ordinal of
\* a call, made at offset off
PlannedPage(a, srv, off, ordinal) ==
    IF ordinal = srv.failAt THEN {srv.failure}
    ELSE ConsistentPages(a.list_key, a.limit, off, srv.records)

PlanSettings == {<<FALSE, 2, 1>>, <<TRUE, 1, 1>>}

InitPlan == InitWith(PlanSettings, ServerPlans)

NextPlan ==
    \/ Call(MainThread)
    \/ Enter(MainThread)
    \/ Wake(MainThread)
    \/ Send(MainThread, PlannedPage(args[MainThread], server, offset[MainThread],
                                    Len(sent[MainThread]) + 1))
    \/ Process(MainThread)
    \/ Return(MainThread)
    \/ Tick

SpecPlan == InitPlan /\ [][NextPlan]_vars

\* what the loop of Client.get (lines 101-155) does without any gate against
\* a server following plan srv: the URLs it requests and how it ends (no
\* outcome if it has not ended after MaxRequests requests)
RECURSIVE Ungated(_, _, _, _, _, _)
Ungated(a, srv, off, acc, ordinal, urls) ==
    IF Len(urls) >= MaxRequests THEN [sent |-> urls, outcome |-> NoOutcome]
    ELSE LET u == create(a.endpoint,
                         DictMerge(a.kwargs, PyDict(<< <<"limit", OptInt(a.limit)>>,
                                                       <<"offset", OptInt(off)>> >>)))
             r == CHOOSE x \in PlannedPage(a, srv, off, ordinal) : TRUE
             cls == Classify(r, u)
             tel == Telemetry(r.headers, 0,
                              [rate_limit |-> 0, remaining |-> 0, last_check |-> 0,
                               exc |-> NoExc])
             step == PageStep(a.limit, off, acc, ordinal, cls.data, a.list_key)
             all == Append(urls, u)
         IN  IF cls.kind = "raise" THEN [sent |-> all, outcome |-> Raised(cls.exc)]
             ELSE IF tel.exc # NoExc THEN [sent |-> all, outcome |-> Raised(tel.exc)]
             ELSE IF step.next = "return"
                  THEN [sent |-> all, outcome |-> Returned(step.value)]
             ELSE IF step.next = "raise"
                  THEN [sent |-> all, outcome |-> Raised(step.exc)]
             ELSE Ungated(a, srv, step.offset, step.result, step.request_number, all)

UngatedCall(a, srv) ==
    Ungated(a, srv, IF a.limit # None THEN 0 ELSE None, <<>>, 1, <<>>)

IsPrefix(s, t) == Len(s) <= Len(t) /\ \A i \in 1..Len(s) : s[i] = t[i]

\* C22: with ratelimiter_enabled = False the gate never blocks; and with the
\* limiter disabled or enabled, against the same server responses, a call
\* requests the same URLs in the same order and ends with the same result or
\* the same error, those of the loop run without any gate.
C22_DisabledGateNoOp ==
    \A c \in Threads :
        /\ ~config[1] => pc[c] # "sleep" /\ until[c] = 0 /\ rate_limiter = nullcontext
        /\ pc[c] # "idle" =>
              LET free == UngatedCall(args[c], server)
              IN  /\ IsPrefix(sent[c], free.sent)
                  /\ pc[c] \in {"done", "failed"} =>
                        sent[c] = free.sent /\ outcome[c] = free.outcome

\* a call on a client with the limiter enabled slept in the gate and ended
\* after several requests, with a result or with an error
C22_Witness ==
    \E c \in Threads :
        /\ config[1] /\ now > 0 /\ Len(sent[c]) >= 2
        /\ pc[c] = "failed"

(***************************************************************************)
(* C23: the result is the concatenation of the pages.                      *)
(***************************************************************************)
\* the page in res[c] is a page of records: status 200, JSON, with the
\* rate-limit headers and a list at the key path
IsRecordPage(c) == IsPage(res[c]) /\ HoldsList(c)

\* C23: a call that returns successfully returns the in-order concatenation
\* of the record lists of all the pages it requested, also when a later page
\* omits count or reports another count: every page of records that lets the
\* loop go on has its records appended to result, and the page that ends the
\* call returns result followed by its own records.
C23_ConcatenationAsClaimed ==
    [][\A c \in Threads :
          (pc[c] = "sent" /\ IsRecordPage(c)) =>
              /\ pc'[c] = "loop" => result'[c] = result[c] \o PageRecords(c)
              /\ pc'[c] = "done" => outcome'[c].value = result[c] \o PageRecords(c)]_vars

\* a call returned on its second page, which held records, after a first page
\* that held records too
C23_Witness ==
    \E c \in Threads :
        /\ pc[c] = "done" /\ Len(sent[c]) = 2
        /\ IsRecordPage(c) /\ PageRecords(c) # <<>>
        /\ result[c] # <<>>

(***************************************************************************)
(* C24: termination.                                                       *)
(***************************************************************************)
\* C24: against a server that answers every request and holds finitely many
\* records, whatever it puts in each page, a call sends finitely many
\* requests and ends.  The server answers a request by what it asks for, and
\* the loop decides by the answer alone (limit, count and the number of
\* records), so a call that asks the same URL a second time is where it was
\* and never ends: the requests of a call are all different.
C24_TerminationAsClaimed ==
    \A c \in Threads :
        \A i, j \in 1..Len(sent[c]) : i < j => sent[c][i] # sent[c][j]

\* the second request of a call repeats the first, after a page that held
\* more records than the page size
C24_Witness ==
    \E c \in Threads :
        /\ pc[c] = "send" /\ Len(sent[c]) = 1 /\ url[c] = sent[c][1]
        /\ Len(result[c]) > args[c].limit

(***************************************************************************)
(* C25: the requests sent and the estimate logged.                         *)
(***************************************************************************)
\* floor(C / L) + 1
EstimatedRequests(c) == (server \div args[c].limit) + 1

\* C25: against a consistent server holding C records, a call with page size
\* L >= 1 logs on its page k the request ordinal k and the estimate
\* floor(C / L) + 1, and it ends having sent exactly that many requests (one
\* last request for zero records when C is a positive multiple of L).
C25_RequestsAsEstimated ==
    \A c \in Threads :
        (pc[c] # "idle" /\ args[c].limit # None) =>
            /\ PagesDone(c) = 0 => logged[c] = <<>>
            /\ PagesDone(c) > 0 => logged[c] = <<PagesDone(c), EstimatedRequests(c)>>
            /\ Len(sent[c]) <= EstimatedRequests(c)
            /\ pc[c] = "done" =>
                  /\ Len(sent[c]) = EstimatedRequests(c)
                  /\ logged[c] = <<Len(sent[c]), EstimatedRequests(c)>>

\* a call with page size L is done against a server holding L records: its
\* second and last request got no records
C25_Witness ==
    \E c \in Threads :
        /\ pc[c] = "done" /\ args[c].limit = server
        /\ Len(sent[c]) = 2 /\ logged[c] = <<2, 2>>
        /\ PageRecords(c) = <<>>

(***************************************************************************)
(* C26: the classification is total.                                       *)
(***************************************************************************)
\* the messages of the error taxonomy: the Remote Protocol and Remote API
\* errors (one format), the Unexpected Content-Type error, the Remote Status
\* error
TaxonomyTemplates == {TemplateErrorCode, TemplateContentType, TemplateStatus}

InTaxonomy(exc) == exc.type = "Exception" /\ exc.template \in TaxonomyTemplates

\* C26: for every response, whatever its status, its content type (or none)
\* and its JSON body, the call goes on to the extraction of the records or
\* fails with one of the errors of the taxonomy: a response that is not a
\* status-200 JSON response fails the call with such an error, and no other.
C26_ClassificationTotalAsClaimed ==
    \A c \in Threads :
        (Ended(c) /\ FailsClassification(res[c])) =>
            /\ pc[c] = "failed"
            /\ InTaxonomy(outcome[c].exc)

\* a call has ended on a response without content-type header, another on an
\* error status whose JSON body lacks error_code
C26_Witness ==
    \E c \in Threads :
        /\ Ended(c)
        /\ \/ ContentTypeOf(res[c]) = PyNone
           \/ /\ HasJsonType(res[c]) /\ res[c].status = 500
              /\ ~DictHas(res[c].body, KeyErrorCode)

(***************************************************************************)
(* Two threads call Client.get on the same client, which has no rate       *)
(* limiter; their steps interleave.  The server holds MaxCount records and *)
(* answers one request of each call (the first or the second, or none)     *)
(* with a failure.                                                         *)
(***************************************************************************)
InterleavedPlans ==
    {ServerPlan(MaxCount, 0, NoRes)}
        \cup {ServerPlan(MaxCount, k, f) :
                 k \in 1..2,
                 f \in {Response(200, CtHtml, <<>>, HtmlBody),
                        Response(404, CtJson, <<>>, PyDict(<<>>))}}

InitInterleaved == InitWith({<<FALSE, 2, 1>>}, InterleavedPlans)

NextInterleaved ==
    \E c \in Threads :
        \/ Call(c)
        \/ Enter(c)
        \/ Send(c, PlannedPage(args[c], server, offset[c], Len(sent[c]) + 1))
        \/ Process(c)
        \/ Return(c)

SpecInterleaved == InitInterleaved /\ [][NextInterleaved]_vars

\* the local variables of the call of thread c
Frame(c) == <<args[c], offset[c], result[c], request_number[c], url[c], res[c],
              outcome[c], sent[c]>>

\* the offset a URL asks for
OffsetOf(u) == DictGet(PyDict(u.query), "offset", PyNone)

\* C27: the offset, the accumulator and the request ordinal belong to one
\* call.  For two calls on the same client, one after the other or
\* interleaved: a call starts with offset 0 (if it has a page size), an empty
\* accumulator and ordinal 1; a step of one call leaves the other call's
\* variables alone; and each call requests the URLs and ends with the result
\* or the error it would have alone.
C27_PerCallState ==
    [][\A c \in Threads :
          /\ (pc[c] = "idle" /\ pc'[c] # "idle") =>
                /\ offset'[c] = (IF args'[c].limit # None THEN 0 ELSE None)
                /\ result'[c] = <<>> /\ request_number'[c] = 1 /\ sent'[c] = <<>>
          /\ pc'[c] # pc[c] =>
                \A d \in Threads \ {c} : Frame(d)' = Frame(d)
          /\ (pc'[c] # pc[c] /\ pc'[c] # "idle") =>
                LET alone == UngatedCall(args'[c], server)
                IN  /\ IsPrefix(sent'[c], alone.sent)
                    /\ (sent'[c] # <<>> /\ args'[c].limit # None) =>
                          OffsetOf(sent'[c][1]) = PyInt(0)
                    /\ pc'[c] \in {"done", "failed"} =>
                          sent'[c] = alone.sent /\ outcome'[c] = alone.outcome]_vars

\* two calls with different page sizes are under way at once, each with
\* records of its own
C27_Witness ==
    \E c, d \in Threads :
        /\ c # d /\ pc[c] = "sent" /\ pc[d] = "sent"
        /\ args[c].limit # args[d].limit
        /\ result[c] # <<>> /\ result[d] # <<>> /\ result[c] # result[d]

(***************************************************************************)
(* C28: a failure leaves the telemetry alone.                              *)
(***************************************************************************)
\* the client's quota telemetry
TelemetryFields == <<rate_limit, rate_limit_remaining, rate_limit_last_check>>

\* thread c takes the response in res[c] through lines 117-155
Processes(c) == pc[c] = "sent" /\ pc'[c] # "sent"

\* C28: a response that fails the classification (with the Remote Protocol,
\* Unexpected Content-Type, Remote API or Remote Status error) fails the call
\* and leaves rate_limit, the stored remaining value and the last-check time
\* as they were before the request; the telemetry changes only when a
\* status-200 JSON response is processed.
C28_FailureKeepsTelemetry ==
    [][/\ \A c \in Threads :
             (Processes(c) /\ FailsClassification(res[c])) =>
                 /\ pc'[c] = "failed"
                 /\ TelemetryFields' = TelemetryFields
       /\ TelemetryFields' # TelemetryFields =>
             \E c \in Threads :
                 Processes(c) /\ res[c].status = 200 /\ HasJsonType(res[c])]_vars

\* a call has failed on a response that carries rate-limit headers other than
\* those the client has stored from an earlier page
C28_Witness ==
    \E c \in Threads :
        /\ pc[c] = "failed" /\ FailsClassification(res[c])
        /\ InTaxonomy(outcome[c].exc)
        /\ DictHas(res[c].headers, "x-rate-limit-limit")
        /\ rate_limit_remaining # None
        /\ DictGet(res[c].headers, "x-rate-limit-remaining", PyNone) # PyInt(rate_limit_remaining)

(***************************************************************************)
(* Client.rate_limit_remaining, lines 90-92.                               *)
(***************************************************************************)
\* timedelta(seconds=60)
QuotaWindow == 60

\* the clock of the telemetry runs up to two windows
MaxClock == 120

\* the property Client.rate_limit_remaining, read at the time `now`
RateLimitRemaining ==
    IF rate_limit_last_check = None \/ rate_limit_last_check <= now - QuotaWindow
    THEN rate_limit
    ELSE rate_limit_remaining

(***************************************************************************)
(* One thread calls Client.get on a client without rate limiter, while     *)
(* seconds pass; the server answers with a page without count that carries *)
(* both rate-limit headers, one of them, or none, or with a bare status.   *)
(***************************************************************************)
HeaderSets ==
    { << <<"x-rate-limit-limit", PyInt(120)>>, <<"x-rate-limit-remaining", PyInt(119)>> >>,
      << <<"x-rate-limit-limit", PyInt(60)>>, <<"x-rate-limit-remaining", PyInt(0)>> >>,
      << <<"x-rate-limit-limit", PyInt(60)>> >>,
      <<>> }

TelemetryPages(list_key) ==
    {[status |-> st, headers |-> PyDict(<< <<"content-type", CtJson>> >> \o h),
      body |-> DataBody(None, Nest(Split(list_key, "."), PyList(Records(0, 1))))] :
        st \in {200, 404}, h \in HeaderSets}

InitTelemetry == InitWith({<<FALSE, 2, 1>>}, {1})

\* 59 or 60 seconds pass
Elapse ==
    /\ \E d \in {QuotaWindow - 1, QuotaWindow} :
          /\ now + d <= MaxClock
          /\ now' = now + d
    /\ UNCHANGED <<clientVars, pc, localVars, historyVars, config, server>>

NextTelemetry ==
    \/ Call(MainThread)
    \/ Enter(MainThread)
    \/ Send(MainThread, TelemetryPages(args[MainThread].list_key))
    \/ Process(MainThread)
    \/ Return(MainThread)
    \/ Elapse

SpecTelemetry == InitTelemetry /\ [][NextTelemetry]_vars

\* thread c takes a page through lines 117-155 without raising
Succeeds(c) == pc[c] = "sent" /\ pc'[c] \in {"loop", "done"}

\* the last successful page is less than 60 seconds old
Fresh == rate_limit_last_check # None /\ now - rate_limit_last_check < QuotaWindow

\* C29: rate_limit_remaining is the full rate_limit (120 until a response
\* changes it) while no page has succeeded or the last successful page is 60
\* seconds old or older; otherwise it is the x-rate-limit-remaining value of
\* the most recent successful page, and rate_limit is that page's
\* x-rate-limit-limit value: a successful page sets both, and until the next
\* successful page nothing changes them while the page is fresh.
C29_RemainingQuotaAsClaimed ==
    [][/\ ~Fresh => RateLimitRemaining = rate_limit
       /\ (rate_limit_last_check = None /\ callsMade = 0) => rate_limit = 120
       /\ \A c \in Threads :
             Succeeds(c) =>
                 /\ Fresh'
                 /\ PyInt(rate_limit') = DictGet(res[c].headers, "x-rate-limit-limit", PyNone)
                 /\ PyInt(RateLimitRemaining') =
                        DictGet(res[c].headers, "x-rate-limit-remaining", PyNone)
       /\ (Fresh /\ Fresh' /\ \A c \in Threads : ~Succeeds(c)) =>
             /\ rate_limit' = rate_limit
             /\ RateLimitRemaining' = RateLimitRemaining]_vars

\* a page with the x-rate-limit-limit header alone has failed a call less
\* than 60 seconds after a successful page
C29_Witness ==
    \E c \in Threads :
        /\ pc[c] = "failed" /\ outcome[c].exc = KeyError("x-rate-limit-remaining")
        /\ Fresh

(***************************************************************************)
(* GeoFRED.series_data (client.py lines 3897-3980), GeoFRED.regional_data  *)
(* (lines 3982-4108) and GeoFRED._add_years (lines 4110-4143; the same     *)
(* code in geofred.py lines 399-432).                                      *)
(***************************************************************************)
MaxRows == 2        \* rows listed under one year

\* GeoFRED.series_data, lines 3960-3966
series_data(p) ==
    Wrapped(NoExc, "/geofred/series/data", ListKeyNested, None,
            PyDict(<< <<"series_id", DictGet(p, "series_id", PyNone)>>,
                      <<"date", DictGet(p, "date", PyNone)>>,
                      <<"start_date", DictGet(p, "start_date", PyNone)>> >>))

\* GeoFRED.regional_data, lines 4073-4094
regional_data(p) ==
    LET frequency == DictGet(p, "frequency", PyNone)
        aggregation_method == DictGet(p, "aggregation_method", PyNone)
        transformation == DictGet(p, "transformation", PyNone)
        error ==
            IF frequency # PyNone /\ frequency.t # "enum"
            THEN ValueError("Variable frequency is not one of the values: {}", <<>>)
            ELSE IF aggregation_method.t # "enum"
            THEN ValueError("Variable aggregation_method is not one of the values: {}", <<>>)
            ELSE IF transformation.t # "enum"
            THEN ValueError("Variable transformation is not one of the values: {}", <<>>)
            ELSE NoExc
    IN  Wrapped(error, "/geofred/regional/data", ListKeyNested, None,
                PyDict(<< <<"series_group", DictGet(p, "series_group", PyNone)>>,
                          <<"region_type", DictGet(p, "region_type", PyNone)>>,
                          <<"date", DictGet(p, "date", PyNone)>>,
                          <<"units", DictGet(p, "units", PyNone)>>,
                          <<"season", DictGet(p, "season", PyNone)>>,
                          <<"start_date", DictGet(p, "start_date", PyNone)>>,
                          <<"frequency", frequency>>,
                          <<"transformation", transformation>>,
                          <<"aggregation_method", aggregation_method>> >>))

\* row['year'] = year
WithYear(row, year) == DictMerge(row, PyDict(<< <<"year", PyStr(<<year>>)>> >>))

RECURSIVE add_years_one_per_year(_)
add_years_one_per_year(data) ==
    IF data.items = <<>> THEN <<>>
    ELSE LET year == data.items[1][1]
             rows == data.items[1][2].items
         IN  (IF rows = <<>> THEN <<>> ELSE <<WithYear(rows[1], year)>>)
                \o add_years_one_per_year(PyDict(Tail(data.items)))

\* GeoFRED._add_years: for year, rows in data.items(): for row in rows: ...
RECURSIVE add_years(_)
add_years(data) ==
    IF data.items = <<>> THEN <<>>
    ELSE LET year == data.items[1][1]
             rows == data.items[1][2].items
         IN  [j \in 1..Len(rows) |-> WithYear(rows[j], year)]
                \o add_years(PyDict(Tail(data.items)))

\* the columns of pd.DataFrame(rows): the keys of the rows
Columns(rows) == UNION {{rows[i].items[k][1] : k \in 1..Len(rows[i].items)} : i \in 1..Len(rows)}

\* pd.DataFrame(rows): the rows and the shape
DataFrame(rows) == [rows |-> rows, shape |-> <<Len(rows), Cardinality(Columns(rows))>>]

\* the calls of the two methods, with the parameters of the tests
GeoInvocations ==
    { [method |-> "series_data",
       params |-> PyDict(<< <<"series_id", PyStr(<<"W", "I", "P", "C", "P", "I">>)>>,
                            <<"date", d>>, <<"start_date", PyNone>> >>)] :
        d \in {PyNone, PyDate(2012, 1, 1)} }
    \cup
    { [method |-> "regional_data",
       params |-> PyDict(<< <<"series_group", PyStr(<<"8", "8", "2">>)>>,
                            <<"region_type", PyEnum("state", PyStr(<<"s", "t", "a", "t", "e">>))>>,
                            <<"date", PyDate(2013, 1, 1)>>,
                            <<"units", PyStr(<<"D", "o", "l", "l", "a", "r", "s">>)>>,
                            <<"season", PyEnum("nsa", PyStr(<<"N", "S", "A">>))>>,
                            <<"start_date", PyNone>>,
                            <<"frequency", f>>,
                            <<"transformation", PyEnum("lin", PyStr(<<"l", "i", "n">>))>>,
                            <<"aggregation_method", PyEnum("average", PyStr(<<"a", "v", "g">>))>> >>)] :
        f \in {PyNone, PyEnum("anual", PyStr(<<"a">>))} }

DispatchGeo(inv) ==
    IF inv.method = "series_data" THEN series_data(inv.params) ELSE regional_data(inv.params)

\* series_data or regional_data is called: it raises the ValueError of its
\* validation, or calls Client.get (lines 94-99)
InvokeGeo(c) ==
    /\ pc[c] = "idle"
    /\ callsMade < MaxCalls
    /\ \E inv \in GeoInvocations :
          LET w == DispatchGeo(inv)
          IN  IF w.error # NoExc
              THEN /\ args' = [args EXCEPT ![c] = [endpoint |-> w.endpoint,
                                                    list_key |-> w.list_key,
                                                    limit |-> w.limit,
                                                    kwargs |-> inv.params]]
                   /\ outcome' = [outcome EXCEPT ![c] = Raised(w.error)]
                   /\ pc' = [pc EXCEPT ![c] = "failed"]
                   /\ UNCHANGED callsMade
              ELSE /\ args' = [args EXCEPT ![c] = [endpoint |-> w.endpoint,
                                                    list_key |-> w.list_key,
                                                    limit |-> w.limit,
                                                    kwargs |-> w.kwargs]]
                   /\ outcome' = [outcome EXCEPT ![c] = NoOutcome]
                   /\ pc' = [pc EXCEPT ![c] = "loop"]
                   /\ callsMade' = callsMade + 1
    /\ offset' = [offset EXCEPT ![c] = None]
    /\ result' = [result EXCEPT ![c] = <<>>]
    /\ request_number' = [request_number EXCEPT ![c] = 1]
    /\ sent' = [sent EXCEPT ![c] = <<>>]
    /\ gated' = [gated EXCEPT ![c] = 0]
    /\ logged' = [logged EXCEPT ![c] = <<>>]
    /\ UNCHANGED <<clientVars, now, url, res, until, sendTimes, config, server>>

\* the data frame the method built
Framed(df) == [kind |-> "frame", value |-> df, exc |-> NoExc]

\* lines 3968-3970 and 4096-4098: Client.get has returned years, and the
\* method builds pd.DataFrame(self._add_years(years[0]))
BuildFrame(c) ==
    /\ pc[c] = "done"
    /\ outcome[c].kind = "return"
    /\ outcome' = [outcome EXCEPT ![c] = Framed(DataFrame(add_years(outcome[c].value[1])))]
    /\ UNCHANGED <<clientVars, now, pc, args, offset, result, request_number, url, res,
                   until, historyVars, config, server>>

\* the method returns the data frame to its caller, or its exception
\* propagates: the frame of the call is gone
Deliver(c) == outcome[c].kind # "return" /\ Return(c)

\* the rows the server may list under a year
GeoRows ==
    { PyDict(<< <<"region", PyStr(<<r>>)>>, <<"value", PyStr(<<v>>)>> >>) :
        r \in {"Alabama"}, v \in {"1", "."} }

YearKeys == {"2012", "2013"}

\* the mappings year -> rows: no year, one year, or two years in either order
YearMappings ==
    {PyDict(<<>>)}
        \cup {PyDict(<< <<y, PyList(rows)>> >>) : y \in YearKeys, rows \in SeqsUpTo(GeoRows, MaxRows)}
        \cup UNION {{PyDict(<< <<y1, PyList(rows1)>>, <<y2, PyList(rows2)>> >>) :
                        y2 \in YearKeys \ {y1},
                        rows1 \in SeqsUpTo(GeoRows, MaxRows),
                        rows2 \in SeqsUpTo(GeoRows, MaxRows)} : y1 \in YearKeys}

\* the regional response: status 200, JSON, no count, the mapping at meta.data
RegionalPage(mapping) ==
    {Response(200, CtJson, MockRateHeaders,
              DataBody(None, Nest(Split(ListKeyNested, "."), mapping)))}

InitGeo == InitWith({<<FALSE, 2, 1>>}, YearMappings)

NextGeo ==
    \/ InvokeGeo(MainThread)
    \/ Enter(MainThread)
    \/ Send(MainThread, RegionalPage(server))
    \/ Process(MainThread)
    \/ BuildFrame(MainThread)
    \/ Deliver(MainThread)

SpecGeo == InitGeo /\ [][NextGeo]_vars

(***************************************************************************)
(* C30: the flattening of the years.                                       *)
(***************************************************************************)
\* the mapping year -> rows of the response in res[c]
MappingOf(c) == ValueAt(res[c].body, PathOf(c))

RowsOfYear(m, i) == m.items[i][2].items

\* the rows listed under the years before the i-th
RECURSIVE RowsBefore(_, _)
RowsBefore(m, i) == IF i <= 1 THEN 0 ELSE RowsBefore(m, i - 1) + Len(RowsOfYear(m, i - 1))

=============================================================================
